---- MODULE Spec2Model ----
(***************************************************************************)
(* State-machine model of the V4L2 + MPP camera library                    *)
(* (native/v4l2_mpp_camera/v4l2_mpp_camera.c).                             *)
(*                                                                         *)
(* Threads: one controlling caller (camera_start / camera_stop), one       *)
(* reader (camera_capture_frame), the capture worker                       *)
(* (capture_thread_func), and the environment: the V4L2 driver and the     *)
(* MPP decoder.                                                            *)
(*                                                                         *)
(* A BGRA publish buffer is modelled as two halves <<lo, hi>>, each        *)
(* holding the id of the frame whose pixels it contains (Garbage for the   *)
(* malloc'ed, never written memory).  A conversion writes lo then hi, a    *)
(* memcpy reads lo then hi, so a torn copy has lo # hi.                     *)
(***************************************************************************)
EXTENDS Integers, Sequences, FiniteSets

\* ---------------------------------------------------------------- constants
V4L2_BUFFER_COUNT == 4
MPP_BUFFER_COUNT == 8

MAX_FACE_BOXES == 10

\* ------------------------------------------------------------------- bounds
\* frames the driver produces in a run of Spec / FairSpec
MaxFrames == 2
\* frames the driver produces in a run of SpecDec (slot reuse needs 9 calls)
MaxDecFrames == 9
\* buffers the driver grants in answer to REQBUFS (2 .. MaxGranted)
MaxGranted == 2
\* capacity of a decode slot's packet buffer (width*height in the program)
PktBufSize == 2
\* tasks of the decoder's ports
MppTaskCount == 2
\* largest width and height the driver answers to VIDIOC_S_FMT
MaxWidth == 2
MaxHeight == 2
\* width and height of the frame given to the colour conversion
ConvWidth == 10
ConvHeight == 2
\* latest reading of the clock and largest window id given to the player
MaxClock == 2
MaxWindow == 1
\* samples the pipeline hands to the detection tap after one start
MaxTapFrames == 2
\* gst_player_set_face_boxes and gst_player_clear_face_boxes calls made on
\* one player
MaxUpdates == 2
\* threads that call gst_player_global_init or gst_player_create, and calls
\* they make in all
MaxThreads == 2
MaxInitCalls == 4
\* frames the device delivers while camera_capture_frame is exercised
MaxCapFrames == 1

Garbage == 0
NoBuf == [index |-> -1, bytesused |-> 0, fid |-> 0]
NoTask == [slot |-> -1, fid |-> 0]
NoDescs == [pkt |-> 0, frm |-> 0]
NoCall == [buf |-> -1, width |-> 0, height |-> 0, stride |-> 0]
NoCfg == [width |-> 0, height |-> 0, face_detect_width |-> 0,
          face_detect_height |-> 0, given |-> FALSE, device |-> FALSE,
          format |-> "MJPEG", face_detect_fps |-> 0]
NoStats == [fps_set |-> FALSE, fps_num |-> 0, fps_den |-> 1,
            dropped_frames |-> 0]
NoTapCall == [running |-> FALSE, width |-> 0, height |-> 0, stride |-> 0]
\* a zeroed gst_face_box_t; a box is named by the update that passed it and
\* its place in that update's array
NoBox == [u |-> 0, k |-> 0]
NoSetArg == [call |-> "none", u |-> 0, boxes |-> FALSE, count |-> 0,
             source_width |-> 0, source_height |-> 0]
NoDims == [video_width |-> 0, video_height |-> 0, source_width |-> 0,
           source_height |-> 0]

VARIABLES
    \* camera_context_t
    running, thread_started, callback, frame_count, decode_count,
    bgra_write_idx, bgra_buffer, frame_mutex, current_buf_idx, buffer_count,
    \* V4L2 driver
    streaming, incoming, done, produced,
    \* MPP decoder: tasks submitted to the input port and not yet retrieved
    \* from the output port, and tasks dequeued and never returned
    mpp_pending, mpp_leaked,
    \* capture worker thread: position and locals
    \* w_descs: packet and frame descriptors of the decode call that are
    \* initialised and not yet de-initialised
    workerPc, w_buf, w_errno, w_decode_ret, w_write_idx, w_task, w_descs,
    \* controlling caller thread
    callerPc, last_op, last_ret, last_noop,
    \* reader thread (camera_capture_frame); r_latest is the frame last
    \* published when the copy started, r_after_start whether the call was
    \* made after camera_start had returned
    readerPc, r_read_idx, r_dst, r_ret, r_latest, r_after_start,
    \* capture geometry of the context
    width, height, bgra_buffer_size,
    \* camera_init / camera_deinit: position, last return value, requested
    \* geometry, loop index, the context's resource fields, and the
    \* resources the process actually holds
    initPc, init_ret, init_req, init_idx, ictx, live,
    \* colour conversion of one decoded frame: position, the frame and the
    \* build (format, planes, NEON and RGA compiled in or not), the row to
    \* convert next, the destination buffer, the RGA call's handles
    conv_pc, conv_in, conv_row, conv_dst, rga,
    \* frame callback: calls made since camera_start and the arguments of the
    \* call in progress
    cb_count, cb_arg,
    \* gst_player_context_t: the handle, the pipeline element's state, the
    \* fields, the monotonic clock, the last API call, its return value and
    \* the states it requested of the pipeline with gst_element_set_state
    gst_ctx, gst_pipeline, gst_video_sink, gst_x11_window_id, gst_running,
    gst_playing, gst_frame_count, gst_start_time, gst_clock, gst_op, gst_ret,
    gst_set_state,
    \* the configuration given to gst_player_create, the fields derived from
    \* it, the registered frame callback, what gst_player_get_stats wrote
    gst_cfg, gst_face_detect_width, gst_face_detect_height,
    gst_frame_callback, gst_stats,
    \* the app-sink element of the pipeline (FALSE: NULL), and what the last
    \* gst_player_create that returned NULL had acquired and not released
    gst_app_sink, create_left,
    \* the streaming thread in on_new_sample: position, the arguments of the
    \* frame callback in progress, calls of the frame callback since the
    \* last start, samples pulled and not released, buffers mapped and not
    \* unmapped, the last return value, the kind of the last sample, samples
    \* that reached the handler since the last start
    tap_pc, tap_cb, tap_cb_count, tap_refs, tap_maps, tap_ret, tap_kind,
    tap_frames,
    \* detection overlay: the context's box store, guarded by
    \* face_box_mutex, and the video dimensions; count_by and source_by are
    \* the updates that wrote the count and the source dimensions
    face_boxes, face_box_count, face_source_width, face_source_height,
    video_width, video_height, face_box_mutex, count_by, source_by,
    \* the caller thread in gst_player_set_face_boxes or
    \* gst_player_clear_face_boxes: position, the call's arguments, its
    \* return value, updates made so far
    set_pc, set_arg, set_ret, updates,
    \* the streaming thread in on_cairo_draw: position, loop index, the
    \* dimensions the scales were computed from, the updates whose data the
    \* invocation used, the rectangles stroked and labels shown
    draw_pc, draw_i, draw_dims, draw_used, draw_rects,
    \* gst_player_global_init: the process-wide flag, successful runs of
    \* gst_init_check, and per calling thread its position, the function
    \* it entered through and the last return value; calls made so far
    g_gst_initialized, gst_init_runs, gi_pc, gi_via, gi_ret, gi_calls,
    \* observation: last published frame, buffers the driver handed out and
    \* decode calls that returned 0 since camera_start, bytes the decode
    \* call of the current iteration copied into its slot's packet buffer
    published, dq_total, ok_decodes, pkt_copied,
    \* camera_capture_frame taken as one call: the arguments of the last
    \* call, its return value, and what it wrote to the destination and to
    \* the width and height outputs
    cap_args, cap_ret, cap_out,
    \* a second caller thread in camera_stop: its position and the last
    \* return value it got
    stopperPc, stopper_ret

ctxVars == <<running, thread_started, callback, frame_count, decode_count,
             bgra_write_idx, bgra_buffer, frame_mutex, current_buf_idx,
             buffer_count>>
devVars == <<streaming, incoming, done, produced>>
mppVars == <<mpp_pending, mpp_leaked>>
workerVars == <<workerPc, w_buf, w_errno, w_decode_ret, w_write_idx, w_task,
               w_descs>>
callerVars == <<callerPc, last_op, last_ret, last_noop>>
readerVars == <<readerPc, r_read_idx, r_dst, r_ret, r_latest, r_after_start>>
obsVars == <<published, dq_total, ok_decodes, pkt_copied>>
geomVars == <<width, height, bgra_buffer_size>>
cbVars == <<cb_count, cb_arg>>
\* what camera_start, camera_stop, camera_capture_frame and the worker never
\* assign
initVars == <<initPc, init_ret, init_req, init_idx, ictx, live>>
convVars == <<conv_pc, conv_in, conv_row, conv_dst, rga>>
gstVars == <<gst_ctx, gst_pipeline, gst_video_sink, gst_x11_window_id,
             gst_running, gst_playing, gst_frame_count, gst_start_time,
             gst_clock, gst_op, gst_ret, gst_set_state>>
gstFieldVars == <<gst_cfg, gst_face_detect_width, gst_face_detect_height,
                  gst_frame_callback, gst_stats, gst_app_sink, create_left>>
tapVars == <<tap_pc, tap_cb, tap_cb_count, tap_refs, tap_maps, tap_ret,
             tap_kind, tap_frames>>
storeVars == <<face_boxes, face_box_count, face_source_width,
               face_source_height, count_by, source_by>>
videoVars == <<video_width, video_height>>
setVars == <<set_pc, set_arg, set_ret, updates>>
drawVars == <<draw_pc, draw_i, draw_dims, draw_used, draw_rects>>
ovlVars == <<storeVars, videoVars, face_box_mutex, setVars, drawVars>>
onceVars == <<g_gst_initialized, gst_init_runs, gi_pc, gi_via, gi_ret,
              gi_calls>>
playerVars == <<gstVars, gstFieldVars, tapVars, ovlVars, onceVars>>
capVars == <<cap_args, cap_ret, cap_out>>
stopperVars == <<stopperPc, stopper_ret>>
extVars == <<geomVars, initVars, convVars, playerVars, capVars, stopperVars>>
vars == <<ctxVars, devVars, mppVars, workerVars, callerVars, readerVars,
          obsVars, cbVars, extVars>>

Buffers == 0 .. (buffer_count - 1)
SeqRange(s) == {s[i] : i \in 1 .. Len(s)}
KernelOwned == SeqRange(incoming) \cup {d.index : d \in SeqRange(done)}

Slots == 0 .. (MPP_BUFFER_COUNT - 1)
MapSlots == 0 .. (V4L2_BUFFER_COUNT - 1)

\* ALIGN(x, 16)
Align16(x) == ((x + 15) \div 16) * 16

\* the calloc'ed context with v4l2_fd = -1 (lines 142-152)
ZeroCtx ==
    [fd_open |-> FALSE,
     start |-> [i \in MapSlots |-> "NULL"],
     mpp_ctx |-> FALSE, frm_grp |-> FALSE,
     pkt_buf |-> [i \in Slots |-> FALSE],
     frm_buf |-> [i \in Slots |-> FALSE],
     pkt_buf_size |-> 0, frm_buf_size |-> 0,
     bgra_ptr |-> [i \in 0 .. 1 |-> FALSE]]

\* nothing held by the process
LiveNone ==
    [ctx |-> FALSE, mutex |-> FALSE, fd |-> FALSE, maps |-> {},
     mpp |-> FALSE, grp |-> FALSE, pkt |-> {}, frm |-> {}, bgra |-> {}]

\* the context and the resources after a camera_init that succeeded with n
\* buffers and the geometry w x h
ReadyCtx(n, w, h) ==
    [fd_open |-> TRUE,
     start |-> [i \in MapSlots |-> IF i < n THEN "PTR" ELSE "NULL"],
     mpp_ctx |-> TRUE, frm_grp |-> TRUE,
     pkt_buf |-> [i \in Slots |-> TRUE],
     frm_buf |-> [i \in Slots |-> TRUE],
     pkt_buf_size |-> w * h,
     frm_buf_size |-> Align16(w) * Align16(h) * 4,
     bgra_ptr |-> [i \in 0 .. 1 |-> TRUE]]
ReadyLive(n) ==
    [ctx |-> TRUE, mutex |-> TRUE, fd |-> TRUE, maps |-> 0 .. (n - 1),
     mpp |-> TRUE, grp |-> TRUE, pkt |-> Slots, frm |-> Slots,
     bgra |-> {0, 1}]

\* no player: gst_player_create not called yet
GstIdle ==
    /\ gst_ctx = "null" /\ gst_pipeline = "NULL"
    /\ gst_video_sink = FALSE /\ gst_x11_window_id = 0
    /\ gst_running = FALSE /\ gst_playing = FALSE
    /\ gst_frame_count = 0 /\ gst_start_time = 0
    /\ gst_clock = 0
    /\ gst_op = "none" /\ gst_ret = "none" /\ gst_set_state = <<>>
    /\ gst_cfg = NoCfg
    /\ gst_face_detect_width = 0 /\ gst_face_detect_height = 0
    /\ gst_frame_callback = FALSE
    /\ gst_stats = NoStats
    /\ gst_app_sink = FALSE /\ create_left = {}
    /\ tap_pc = "idle" /\ tap_cb = NoTapCall /\ tap_cb_count = 0
    /\ tap_refs = 0 /\ tap_maps = 0
    /\ tap_ret = "none" /\ tap_kind = "none" /\ tap_frames = 0
    /\ face_boxes = [k \in 1 .. MAX_FACE_BOXES |-> NoBox]
    /\ face_box_count = 0
    /\ face_source_width = 0 /\ face_source_height = 0
    /\ count_by = 0 /\ source_by = 0
    /\ video_width = 0 /\ video_height = 0
    /\ face_box_mutex = "free"
    /\ set_pc = "idle" /\ set_arg = NoSetArg /\ set_ret = "none"
    /\ updates = 0
    /\ draw_pc = "idle" /\ draw_i = 0 /\ draw_dims = NoDims
    /\ draw_used = {} /\ draw_rects = <<>>
    /\ g_gst_initialized = FALSE /\ gst_init_runs = 0
    /\ gi_pc = [t \in 1 .. MaxThreads |-> "idle"]
    /\ gi_via = [t \in 1 .. MaxThreads |-> "none"]
    /\ gi_ret = [t \in 1 .. MaxThreads |-> "none"]
    /\ gi_calls = 0

\* no camera_capture_frame call made; a destination and outputs not written
NoCapture ==
    [handle |-> FALSE, dst |-> FALSE, size |-> 0, outs |-> FALSE]
NoOutput == [dst |-> <<>>, width |-> -1, height |-> -1]

\* State after a successful camera_init: calloc'ed context, bgra_write_idx 0,
\* two malloc'ed publish buffers, the granted buffers mapped and not queued.
InitIdle ==
    /\ running = FALSE /\ thread_started = FALSE /\ callback = FALSE
    /\ frame_count = 0 /\ decode_count = 0
    /\ bgra_write_idx = 0
    /\ bgra_buffer = [i \in 0 .. 1 |-> <<Garbage, Garbage>>]
    /\ frame_mutex = "free"
    /\ current_buf_idx = 0
    /\ streaming = FALSE /\ incoming = <<>> /\ done = <<>>
    /\ produced = 0
    /\ mpp_pending = <<>> /\ mpp_leaked = 0
    /\ workerPc = "none" /\ w_buf = NoBuf /\ w_errno = "none"
    /\ w_decode_ret = 0 /\ w_write_idx = 0 /\ w_task = NoTask
    /\ w_descs = NoDescs
    /\ callerPc = "idle" /\ last_op = "none" /\ last_ret = "none"
    /\ last_noop = FALSE
    /\ readerPc = "idle" /\ r_read_idx = 0
    /\ r_dst = <<Garbage, Garbage>> /\ r_ret = "none" /\ r_latest = Garbage
    /\ r_after_start = FALSE
    /\ published = Garbage /\ dq_total = 0 /\ ok_decodes = 0
    /\ pkt_copied = 0
    /\ cb_count = 0 /\ cb_arg = NoCall
    /\ GstIdle
    /\ cap_args = NoCapture /\ cap_ret = "none" /\ cap_out = NoOutput
    /\ stopperPc = "idle" /\ stopper_ret = "none"

\* a byte of the destination buffer not written yet
Unwritten == -1
NoRga == [ret |-> 0, acquired |-> <<>>, released |-> <<>>]

\* no conversion under way
ConvIdle ==
    /\ conv_pc = "idle"
    /\ conv_in = [fmt |-> "NV12", neon |-> FALSE, rga |-> FALSE,
                  y |-> <<>>, uv |-> <<>>]
    /\ conv_row = 0
    /\ conv_dst = <<>>
    /\ rga = NoRga

Init ==
    /\ InitIdle
    /\ ConvIdle
    /\ buffer_count \in 2 .. MaxGranted
    /\ width = MaxWidth /\ height = MaxHeight
    /\ bgra_buffer_size = width * height * 4
    /\ initPc = "ready" /\ init_ret = "handle"
    /\ init_req = [width |-> width, height |-> height]
    /\ init_idx = 0
    /\ ictx = ReadyCtx(buffer_count, width, height)
    /\ live = ReadyLive(buffer_count)

\* State before any camera_init: no context.
InitNoContext ==
    /\ InitIdle
    /\ ConvIdle
    /\ buffer_count = 0
    /\ width = 0 /\ height = 0 /\ bgra_buffer_size = 0
    /\ initPc = "none" /\ init_ret = "none"
    /\ init_req = [width |-> 0, height |-> 0]
    /\ init_idx = 0
    /\ ictx = ZeroCtx
    /\ live = LiveNone


\* ------------------------------------------------------------------ xioctl
\* lines 126-128: xioctl repeats the ioctl while it fails with EINTR or EAGAIN.
Xioctl_retries(errno) == errno \in {"EINTR", "EAGAIN"}

\* --------------------------------------------------------- V4L2 streaming
\* VIDIOC_STREAMOFF: the driver drops every buffer from both of its queues.
v4l2_stop_streaming_keeps_queues ==
    /\ streaming' = FALSE
    /\ UNCHANGED <<incoming, done>>

v4l2_stop_streaming ==
    /\ streaming' = FALSE
    /\ incoming' = <<>>
    /\ done' = <<>>

\* Index of the first VIDIOC_QBUF of v4l2_start_streaming the driver must
\* refuse (the buffer is already queued); buffer_count when there is none.
FirstRefused ==
    IF \E i \in Buffers : i \in KernelOwned
    THEN CHOOSE i \in Buffers :
             /\ i \in KernelOwned
             /\ \A j \in Buffers : j \in KernelOwned => i <= j
    ELSE buffer_count

\* v4l2_start_streaming, by its outcome: fail_at < buffer_count is the index
\* of the VIDIOC_QBUF that failed, fail_at = buffer_count a failed
\* VIDIOC_STREAMON, fail_at = buffer_count + 1 success.
StartStreamingOutcomes ==
    {k \in 0 .. (buffer_count + 1) :
        k <= FirstRefused \/ FirstRefused = buffer_count}

\* The driver's incoming queue after the QBUFs that took effect.
QueuedBy(fail_at) ==
    incoming \o [i \in 1 .. (IF fail_at < buffer_count THEN fail_at
                             ELSE buffer_count) |-> i - 1]

\* ------------------------------------------------------------ camera_start
\* line 222: if (ctx->running) return CAMERA_OK;
StartIsNoop_always_restart == FALSE
StartIsNoop == running

WorkerLocalsInit ==
    /\ w_buf' = NoBuf /\ w_errno' = "none" /\ w_decode_ret' = 0
    /\ w_write_idx' = 0 /\ w_task' = NoTask /\ w_descs' = NoDescs

\* camera_start up to and including pthread_create.
CameraStart(cb) ==
    /\ callerPc = "idle"
    /\ last_op' = "start"
    /\ IF StartIsNoop
       THEN /\ last_ret' = "OK"
            /\ last_noop' = TRUE
            /\ callerPc' = "idle"
            /\ UNCHANGED <<ctxVars, devVars, mppVars, workerVars, readerVars,
                           obsVars, cbVars>>
       ELSE /\ last_noop' = FALSE
            /\ cb_count' = 0
            /\ cb_arg' = NoCall
            /\ callback' = cb
            /\ frame_count' = 0
            /\ decode_count' = 0
            /\ dq_total' = 0
            /\ ok_decodes' = 0
            /\ pkt_copied' = 0
            /\ \E fail_at \in StartStreamingOutcomes :
                 IF fail_at <= buffer_count
                 THEN \* v4l2_start_streaming failed
                      /\ incoming' = QueuedBy(fail_at)
                      /\ streaming' = FALSE
                      /\ done' = done
                      /\ running' = FALSE
                      /\ thread_started' = FALSE
                      /\ last_ret' = "V4L2_INIT_FAILED"
                      /\ callerPc' = "idle"
                      /\ UNCHANGED workerVars
                 ELSE \E created \in BOOLEAN :
                      IF created
                      THEN /\ incoming' = QueuedBy(fail_at)
                           /\ streaming' = TRUE
                           /\ done' = done
                           /\ running' = TRUE
                           /\ thread_started' = FALSE
                           /\ workerPc' = "begin"
                           /\ WorkerLocalsInit
                           /\ last_ret' = "pending"
                           /\ callerPc' = "start_wait"
                      ELSE \* both pthread_create attempts failed
                           /\ v4l2_stop_streaming
                           /\ running' = FALSE
                           /\ thread_started' = FALSE
                           /\ last_ret' = "V4L2_INIT_FAILED"
                           /\ callerPc' = "idle"
                           /\ UNCHANGED workerVars
            /\ UNCHANGED <<bgra_write_idx, bgra_buffer, frame_mutex,
                           current_buf_idx, buffer_count, produced,
                           mppVars, readerVars, published>>
    /\ UNCHANGED extVars

\* camera_start's wait loop: while (!thread_started && running) usleep(100);
CameraStartWait ==
    /\ callerPc = "start_wait"
    /\ thread_started \/ ~running
    /\ callerPc' = "idle"
    /\ last_ret' = "OK"
    /\ UNCHANGED <<last_op, last_noop, ctxVars, devVars, mppVars, workerVars,
                   readerVars, obsVars>>
    /\ UNCHANGED <<extVars, cbVars>>

\* ------------------------------------------------------------- camera_stop
\* line 275: if (!ctx->running) return CAMERA_OK;
StopIsNoop == ~running

\* line 280: if (ctx->thread_started) pthread_join(...)
StopJoins_never == FALSE
StopJoins == thread_started

\* camera_stop up to pthread_join (or to its return when it does not join).
CameraStop ==
    /\ callerPc = "idle"
    /\ last_op' = "stop"
    /\ IF StopIsNoop
       THEN /\ last_ret' = "OK"
            /\ last_noop' = TRUE
            /\ callerPc' = "idle"
            /\ UNCHANGED <<ctxVars, devVars, mppVars, workerVars, readerVars,
                           obsVars>>
       ELSE /\ last_noop' = FALSE
            /\ running' = FALSE
            /\ IF StopJoins
               THEN /\ callerPc' = "stop_join"
                    /\ last_ret' = "pending"
                    /\ UNCHANGED <<thread_started, devVars>>
               ELSE /\ v4l2_stop_streaming
                    /\ callerPc' = "idle"
                    /\ last_ret' = "OK"
                    /\ UNCHANGED <<thread_started, produced>>
            /\ UNCHANGED <<callback, frame_count, decode_count,
                           bgra_write_idx, bgra_buffer, frame_mutex,
                           current_buf_idx, buffer_count, mppVars,
                           workerVars, readerVars, obsVars>>
    /\ UNCHANGED <<extVars, cbVars>>

\* pthread_join returns once the worker has left capture_thread_func; then
\* thread_started = 0, VIDIOC_STREAMOFF, return CAMERA_OK.
CameraStopJoin ==
    /\ callerPc = "stop_join"
    /\ workerPc = "exited"
    /\ workerPc' = "none"
    /\ w_buf' = NoBuf
    /\ thread_started' = FALSE
    /\ v4l2_stop_streaming
    /\ callerPc' = "idle"
    /\ last_ret' = "OK"
    /\ UNCHANGED <<last_op, last_noop, running, callback, frame_count,
                   decode_count, bgra_write_idx, bgra_buffer, frame_mutex,
                   current_buf_idx, buffer_count, produced, mppVars,
                   w_errno, w_decode_ret, w_write_idx, w_task, w_descs,
                   readerVars, obsVars>>
    /\ UNCHANGED <<extVars, cbVars>>

\* camera_stop, lines 270-291, called by a second thread: the same code up
\* to pthread_join, or to its return when it does not join.
CameraStopOther ==
    /\ stopperPc = "idle"
    /\ IF StopIsNoop
       THEN /\ stopper_ret' = "OK"
            /\ stopperPc' = "idle"
            /\ UNCHANGED <<ctxVars, devVars>>
       ELSE /\ running' = FALSE
            /\ IF StopJoins
               THEN /\ stopperPc' = "stop_join"
                    /\ stopper_ret' = "pending"
                    /\ UNCHANGED <<thread_started, devVars>>
               ELSE /\ v4l2_stop_streaming
                    /\ stopperPc' = "idle"
                    /\ stopper_ret' = "OK"
                    /\ UNCHANGED <<thread_started, produced>>
            /\ UNCHANGED <<callback, frame_count, decode_count,
                           bgra_write_idx, bgra_buffer, frame_mutex,
                           current_buf_idx, buffer_count>>
    /\ UNCHANGED <<mppVars, workerVars, callerVars, readerVars, obsVars,
                   cbVars, geomVars, initVars, convVars, playerVars,
                   capVars>>

\* the second thread's pthread_join has returned: thread_started = 0,
\* VIDIOC_STREAMOFF, return CAMERA_OK.
CameraStopOtherJoin ==
    /\ stopperPc = "stop_join"
    /\ workerPc = "exited"
    /\ workerPc' = "none"
    /\ w_buf' = NoBuf
    /\ thread_started' = FALSE
    /\ v4l2_stop_streaming
    /\ stopperPc' = "idle"
    /\ stopper_ret' = "OK"
    /\ UNCHANGED <<running, callback, frame_count, decode_count,
                   bgra_write_idx, bgra_buffer, frame_mutex,
                   current_buf_idx, buffer_count, produced, mppVars,
                   w_errno, w_decode_ret, w_write_idx, w_task, w_descs,
                   callerVars, readerVars, obsVars, cbVars, geomVars,
                   initVars, convVars, playerVars, capVars>>

\* camera_is_running
camera_is_running == running

\* ------------------------------------------------------------- V4L2 driver
\* The driver fills the buffer at the head of its incoming queue.
DeviceFill(limit) ==
    /\ streaming
    /\ incoming # <<>>
    /\ produced < limit
    /\ done' = Append(done, [index |-> Head(incoming), fid |-> produced + 1])
    /\ incoming' = Tail(incoming)
    /\ produced' = produced + 1
    /\ UNCHANGED <<streaming, ctxVars, mppVars, workerVars, callerVars,
                   readerVars, obsVars>>
    /\ UNCHANGED <<extVars, cbVars>>

\* ----------------------------------------------------- capture_thread_func
\* line 1065: ctx->thread_started = 1
WorkerBegin ==
    /\ workerPc = "begin"
    /\ thread_started' = TRUE
    /\ workerPc' = "check"
    /\ UNCHANGED <<running, callback, frame_count, decode_count,
                   bgra_write_idx, bgra_buffer, frame_mutex, current_buf_idx,
                   buffer_count, devVars, mppVars, w_buf, w_errno,
                   w_decode_ret, w_write_idx, w_task, callerVars, readerVars,
                   obsVars>>
    /\ UNCHANGED <<extVars, cbVars>>
    /\ UNCHANGED w_descs

\* line 1068: while (ctx->running)
WorkerCheck ==
    /\ workerPc = "check"
    /\ workerPc' = IF running THEN "select" ELSE "exited"
    /\ w_errno' = "none"
    /\ UNCHANGED <<ctxVars, devVars, mppVars, w_buf, w_decode_ret,
                   w_write_idx, w_task, callerVars, readerVars, obsVars>>
    /\ UNCHANGED <<extVars, cbVars>>
    /\ UNCHANGED w_descs

\* lines 1079-1085: select with a 33 ms timeout: EINTR (continue), another
\* error (break), timeout (continue), or readable.  Readiness may be
\* reported although no filled buffer is there to take.
WorkerSelect ==
    /\ workerPc = "select"
    /\ \/ workerPc' = "check"
       \/ workerPc' = "exited"
       \/ workerPc' = "dqbuf"
    /\ UNCHANGED <<ctxVars, devVars, mppVars, w_buf, w_errno, w_decode_ret,
                   w_write_idx, w_task, callerVars, readerVars, obsVars>>
    /\ UNCHANGED <<extVars, cbVars>>
    /\ UNCHANGED w_descs

\* What one ioctl(VIDIOC_DQBUF) on the non-blocking fd can answer: with no
\* filled buffer EAGAIN, with one the buffer; or a hard error.
DqbufAnswers ==
    IF done = <<>> THEN {"EAGAIN", "EIO"} ELSE {"OK", "EIO"}

\* bytesused of a dequeued buffer: empty, fitting a decode slot, too large
BytesUsedChoices == {0, PktBufSize, PktBufSize + 1}

\* lines 1093-1095, reached when xioctl returned -1:
\* if (errno == EAGAIN) continue; ... break;
AfterDqbufError(errno) == IF errno = "EAGAIN" THEN "check" ELSE "exited"

\* line 1100: ctx->frame_count++ for every dequeued buffer
FrameCountAfter(bytesused) == frame_count + 1

\* lines 1092-1100: one ioctl of xioctl(VIDIOC_DQBUF) answering e and what
\* follows it: xioctl's own retry, the error exits, or the dequeue and
\* frame_count++.
WorkerDqbufGets(e) ==
    /\ workerPc = "dqbuf"
    /\ e \in DqbufAnswers
    /\ IF e = "OK"
       THEN /\ \E bu \in BytesUsedChoices :
                 /\ w_buf' = [index |-> Head(done).index, bytesused |-> bu,
                              fid |-> Head(done).fid]
                 /\ frame_count' = FrameCountAfter(bu)
            /\ done' = Tail(done)
            /\ dq_total' = dq_total + 1
            /\ w_errno' = "none"
            /\ workerPc' = "decode"
       ELSE IF Xioctl_retries(e)
       THEN /\ w_errno' = e
            /\ workerPc' = "dqbuf"
            /\ UNCHANGED <<w_buf, done, frame_count, dq_total>>
       ELSE /\ w_errno' = IF AfterDqbufError(e) = "check" THEN e ELSE "none"
            /\ workerPc' = AfterDqbufError(e)
            /\ UNCHANGED <<w_buf, done, frame_count, dq_total>>
    /\ UNCHANGED <<running, thread_started, callback, decode_count,
                   bgra_write_idx, bgra_buffer, frame_mutex, current_buf_idx,
                   buffer_count, streaming, incoming, produced,
                   mppVars, w_decode_ret, w_write_idx, w_task, callerVars,
                   readerVars, published, ok_decodes, pkt_copied>>
    /\ UNCHANGED <<extVars, cbVars>>
    /\ UNCHANGED w_descs

\* Where the worker goes with a buffer whose bytesused is 0: lines 1103, 1130
AfterEmptyBuffer_continue == "check"
AfterEmptyBuffer == "qbuf"

\* line 1103: if (buf.bytesused > 0) is false: no decode, straight to QBUF.
WorkerSkipEmpty ==
    /\ workerPc = "decode"
    /\ w_buf.bytesused = 0
    /\ workerPc' = AfterEmptyBuffer
    /\ UNCHANGED <<ctxVars, devVars, mppVars, w_buf, w_errno, w_decode_ret,
                   w_write_idx, w_task, callerVars, readerVars, obsVars>>
    /\ UNCHANGED <<extVars, cbVars>>
    /\ UNCHANGED w_descs

\* -------------------------------------------- decode_mjpeg_to_bgra_fast
\* Where the worker goes when the decode call returned -1: lines 1108, 1130.
AfterDecodeFailure_continue == "check"
AfterDecodeFailure == "qbuf"

\* line 1026: ctx->decode_count++ only on the path that sets got_frame
DecodeCountAfter_counts_failures(got_frame) == decode_count + 1
DecodeCountAfter(got_frame) ==
    IF got_frame THEN decode_count + 1 ELSE decode_count

\* The points where decode_mjpeg_to_bgra_fast returns: the size check
\* (line 896), mpp_packet_init_with_buffer (905), mpp_frame_init (913), the
\* input port's poll (924), dequeue (931) and enqueue (943), the output
\* port's poll (953) and dequeue (962), and the end of the function (1036)
\* without or with a good frame.
EarlyReturns == {"packet_init", "frame_init", "in_poll", "in_dequeue"}
LateReturns == {"out_poll", "out_dequeue"}

\* descriptors initialised when the call returns at point at: lines 903, 910
PacketInits(at) == IF at \in {"size", "packet_init"} THEN 0 ELSE 1
FrameInits(at) ==
    IF at \in {"size", "packet_init", "frame_init"} THEN 0 ELSE 1

\* mpp_packet_deinit calls on the path that returns at point at:
\* lines 912, 923, 930, 942, 952, 961, 1034
PacketDeinits_not_after_frame_init(at) ==
    IF at \in {"size", "packet_init", "frame_init"} THEN 0 ELSE 1
PacketDeinits(at) == IF at \in {"size", "packet_init"} THEN 0 ELSE 1

\* mpp_frame_deinit calls on that path: lines 922, 929, 941, 951, 960, 1033
FrameDeinits(at) ==
    IF at \in {"size", "packet_init", "frame_init"} THEN 0 ELSE 1

\* descriptors live once the call has got past every return before the
\* output port
DescsInFlight ==
    [pkt |-> PacketInits("out_poll"), frm |-> FrameInits("out_poll")]

\* descriptors left live by a call that returns at point at, having had
\* live the descriptors had
DescsAfterReturn(had, at) ==
    [pkt |-> had.pkt - PacketDeinits(at), frm |-> had.frm - FrameDeinits(at)]

\* a return -1 of decode_mjpeg_to_bgra_fast
DecodeFails ==
    /\ w_decode_ret' = -1
    /\ decode_count' = DecodeCountAfter(FALSE)
    /\ workerPc' = AfterDecodeFailure

InputTaskFree == Len(mpp_pending) + mpp_leaked < MppTaskCount

\* lines 895-900: if (mjpeg_size > dec_buf->pkt_buf_size) return -1, before
\* the memcpy of mjpeg_size bytes into the slot's packet buffer
CopiedBytes_unchecked(mjpeg_size) == mjpeg_size
CopiedBytes(mjpeg_size) ==
    IF mjpeg_size > PktBufSize THEN 0 ELSE mjpeg_size

\* lines 888-944: slot advance, size check, copy, packet and frame
\* descriptors, input poll, input dequeue, task enqueue (the submission).
WorkerDecodeSubmit ==
    /\ workerPc = "decode"
    /\ w_buf.bytesused > 0
    /\ current_buf_idx' = (current_buf_idx + 1) % MPP_BUFFER_COUNT
    /\ pkt_copied' = CopiedBytes(w_buf.bytesused)
    /\ IF w_buf.bytesused > PktBufSize
       THEN /\ DecodeFails /\ UNCHANGED mppVars
            /\ w_descs' = DescsAfterReturn(
                              [pkt |-> PacketInits("size"),
                               frm |-> FrameInits("size")], "size")
       ELSE \/ \* packet init, frame init, input poll or input dequeue failed
               /\ DecodeFails /\ UNCHANGED mppVars
               /\ \E at \in EarlyReturns :
                    w_descs' = DescsAfterReturn(
                                  [pkt |-> PacketInits(at),
                                   frm |-> FrameInits(at)], at)
            \/ \* the enqueue to the input port failed: the task is not
               \* given back
               /\ InputTaskFree
               /\ mpp_leaked' = mpp_leaked + 1
               /\ DecodeFails /\ UNCHANGED mpp_pending
               /\ w_descs' = DescsAfterReturn(
                                 [pkt |-> PacketInits("in_enqueue"),
                                  frm |-> FrameInits("in_enqueue")],
                                 "in_enqueue")
            \/ /\ InputTaskFree
               /\ mpp_pending' = Append(mpp_pending,
                                   [slot |-> current_buf_idx,
                                    fid |-> w_buf.fid])
               /\ workerPc' = "fetch"
               /\ w_descs' = DescsInFlight
               /\ UNCHANGED <<mpp_leaked, w_decode_ret, decode_count>>
    /\ UNCHANGED <<running, thread_started, callback, frame_count,
                   bgra_write_idx, bgra_buffer, frame_mutex,
                   buffer_count, devVars, w_buf, w_errno, w_write_idx,
                   w_task, callerVars, readerVars, published, dq_total,
                   ok_decodes>>
    /\ UNCHANGED <<extVars, cbVars>>

\* lines 949-995: output poll (blocking), output dequeue, the frame's error
\* word; on a good frame the write index is read for the conversion.
WorkerDecodeFetch ==
    /\ workerPc = "fetch"
    /\ \/ \* output poll or output dequeue failed: return -1, task not taken
          /\ DecodeFails /\ UNCHANGED <<mpp_pending, w_task, w_write_idx>>
          /\ \E at \in LateReturns : w_descs' = DescsAfterReturn(w_descs, at)
       \/ \* task taken, no frame or error word set: lines 1031-1036
          /\ mpp_pending # <<>>
          /\ mpp_pending' = Tail(mpp_pending)
          /\ DecodeFails /\ UNCHANGED <<w_task, w_write_idx>>
          /\ w_descs' = DescsAfterReturn(w_descs, "no_frame")
       \/ /\ mpp_pending # <<>>
          /\ mpp_pending' = Tail(mpp_pending)
          /\ w_task' = Head(mpp_pending)
          /\ w_write_idx' = bgra_write_idx
          /\ workerPc' = "conv_lo"
          /\ UNCHANGED <<w_decode_ret, decode_count, w_descs>>
    /\ UNCHANGED <<running, thread_started, callback, frame_count,
                   bgra_write_idx, bgra_buffer, frame_mutex, current_buf_idx,
                   buffer_count, devVars, mpp_leaked, w_buf, w_errno,
                   callerVars, readerVars, obsVars>>
    /\ UNCHANGED <<extVars, cbVars>>

\* lines 997-1010: the conversion writes bgra_buffer[write_idx], first half
WorkerConvertLo ==
    /\ workerPc = "conv_lo"
    /\ bgra_buffer' = [bgra_buffer EXCEPT ![w_write_idx][1] = w_task.fid]
    /\ workerPc' = "conv_hi"
    /\ UNCHANGED <<running, thread_started, callback, frame_count,
                   decode_count, bgra_write_idx, frame_mutex, current_buf_idx,
                   buffer_count, devVars, mppVars, w_buf, w_errno,
                   w_decode_ret, w_write_idx, w_task, callerVars, readerVars,
                   obsVars>>
    /\ UNCHANGED <<extVars, cbVars>>
    /\ UNCHANGED w_descs

\* ... and second half
WorkerConvertHi ==
    /\ workerPc = "conv_hi"
    /\ bgra_buffer' = [bgra_buffer EXCEPT ![w_write_idx][2] = w_task.fid]
    /\ workerPc' = "toggle"
    /\ UNCHANGED <<running, thread_started, callback, frame_count,
                   decode_count, bgra_write_idx, frame_mutex, current_buf_idx,
                   buffer_count, devVars, mppVars, w_buf, w_errno,
                   w_decode_ret, w_write_idx, w_task, callerVars, readerVars,
                   obsVars>>
    /\ UNCHANGED <<extVars, cbVars>>
    /\ UNCHANGED w_descs

\* line 1016: ctx->bgra_write_idx = 1 - write_idx
NextWriteIdx_same(write_idx) == write_idx
NextWriteIdx(write_idx) == 1 - write_idx

\* lines 1015-1036: lock, bgra_write_idx = 1 - write_idx, unlock,
\* decode_count++, task back to the output port, descriptors released,
\* return 0.
WorkerToggle ==
    /\ workerPc = "toggle"
    /\ frame_mutex = "free"
    /\ bgra_write_idx' = NextWriteIdx(w_write_idx)
    /\ published' = w_task.fid
    /\ decode_count' = DecodeCountAfter(TRUE)
    /\ ok_decodes' = ok_decodes + 1
    /\ w_decode_ret' = 0
    /\ w_descs' = DescsAfterReturn(w_descs, "ok")
    /\ workerPc' = "callback"
    /\ UNCHANGED <<running, thread_started, callback, frame_count,
                   bgra_buffer, frame_mutex, current_buf_idx, buffer_count,
                   devVars, mppVars, w_buf, w_errno, w_write_idx, w_task,
                   callerVars, readerVars, dq_total, pkt_copied>>
    /\ UNCHANGED <<extVars, cbVars>>

\* line 1111: int read_idx = 1 - ctx->bgra_write_idx
CallbackReadIdx_write_slot == bgra_write_idx
CallbackReadIdx == 1 - bgra_write_idx

\* lines 1108-1113: decode_ret == 0: if (ctx->callback) the frame callback
\* is entered with bgra_buffer[read_idx], width, height, width * 4
WorkerCallback ==
    /\ workerPc = "callback"
    /\ workerPc' = IF callback THEN "in_cb" ELSE "qbuf"
    /\ IF callback
       THEN /\ cb_arg' = [buf |-> CallbackReadIdx, width |-> width,
                          height |-> height, stride |-> width * 4]
            /\ cb_count' = cb_count + 1
       ELSE UNCHANGED cbVars
    /\ UNCHANGED <<ctxVars, devVars, mppVars, w_buf, w_errno, w_decode_ret,
                   w_write_idx, w_task, callerVars, readerVars, obsVars>>
    /\ UNCHANGED extVars
    /\ UNCHANGED w_descs

\* lines 1112-1113: the frame callback runs on the worker and returns
WorkerCallbackReturn ==
    /\ workerPc = "in_cb"
    /\ workerPc' = "qbuf"
    /\ cb_arg' = NoCall
    /\ UNCHANGED cb_count
    /\ UNCHANGED <<ctxVars, devVars, mppVars, w_buf, w_errno, w_decode_ret,
                   w_write_idx, w_task, callerVars, readerVars, obsVars>>
    /\ UNCHANGED extVars
    /\ UNCHANGED w_descs

\* lines 1130-1133: xioctl(VIDIOC_QBUF); on failure break.  The locals of
\* the iteration end with it.
WorkerQbuf ==
    /\ workerPc = "qbuf"
    /\ \/ /\ incoming' = Append(incoming, w_buf.index)
          /\ w_buf' = NoBuf
          /\ workerPc' = "check"
       \/ /\ workerPc' = "exited"
          /\ UNCHANGED <<incoming, w_buf>>
    /\ w_task' = NoTask
    /\ w_write_idx' = 0
    /\ w_decode_ret' = 0
    /\ pkt_copied' = 0
    /\ UNCHANGED <<ctxVars, streaming, done, produced, mppVars,
                   w_errno, callerVars, readerVars, published, dq_total,
                   ok_decodes>>
    /\ UNCHANGED <<extVars, cbVars>>
    /\ UNCHANGED w_descs

\* the worker's steps other than the DQBUF ioctl
WorkerRuns ==
    \/ WorkerBegin \/ WorkerCheck \/ WorkerSelect
    \/ WorkerSkipEmpty \/ WorkerDecodeSubmit \/ WorkerDecodeFetch
    \/ WorkerConvertLo \/ WorkerConvertHi \/ WorkerToggle
    \/ WorkerCallback \/ WorkerCallbackReturn \/ WorkerQbuf

WorkerDqbuf == \E e \in {"OK", "EAGAIN", "EIO"} : WorkerDqbufGets(e)

Worker == WorkerRuns \/ WorkerDqbuf

\* ------------------------------------------------------ camera_capture_frame
\* lines 306-311: the parameter checks, then read_idx = 1 - bgra_write_idx,
\* read before the mutex is taken.  The destination arrives unwritten.
ReaderCall(size_ok) ==
    /\ readerPc = "idle"
    /\ UNCHANGED <<r_dst, r_latest>>
    /\ IF ~running
       THEN /\ r_ret' = "NOT_RUNNING"
            /\ UNCHANGED <<readerPc, r_read_idx, r_after_start>>
       ELSE IF ~size_ok
       THEN /\ r_ret' = "INVALID_PARAM"
            /\ UNCHANGED <<readerPc, r_read_idx, r_after_start>>
       ELSE /\ r_read_idx' = 1 - bgra_write_idx
            /\ r_after_start' = (callerPc = "idle")
            /\ r_ret' = "pending"
            /\ readerPc' = "locking"
    /\ UNCHANGED <<ctxVars, devVars, mppVars, workerVars, callerVars,
                   obsVars>>
    /\ UNCHANGED <<extVars, cbVars>>

\* lines 313-314: lock, memcpy from bgra_buffer[read_idx], first half
ReaderLockCopyLo ==
    /\ readerPc = "locking"
    /\ frame_mutex = "free"
    /\ frame_mutex' = "reader"
    /\ r_dst' = <<bgra_buffer[r_read_idx][1], r_dst[2]>>
    /\ r_latest' = published
    /\ readerPc' = "copying"
    /\ UNCHANGED <<running, thread_started, callback, frame_count,
                   decode_count, bgra_write_idx, bgra_buffer, current_buf_idx,
                   buffer_count, devVars, mppVars, workerVars, callerVars,
                   r_read_idx, r_ret, r_after_start, obsVars>>
    /\ UNCHANGED <<extVars, cbVars>>

\* line 314: memcpy's second half
ReaderCopyHi ==
    /\ readerPc = "copying"
    /\ r_dst' = <<r_dst[1], bgra_buffer[r_read_idx][2]>>
    /\ readerPc' = "copied"
    /\ UNCHANGED <<ctxVars, devVars, mppVars, workerVars, callerVars,
                   r_read_idx, r_ret, r_latest, r_after_start, obsVars>>
    /\ UNCHANGED <<extVars, cbVars>>

\* lines 315-320: unlock, the width and height outputs, return CAMERA_OK.
\* The filled destination is the caller's from here on.
ReaderUnlockReturn ==
    /\ readerPc = "copied"
    /\ frame_mutex' = "free"
    /\ r_ret' = "OK"
    /\ r_read_idx' = 0
    /\ r_dst' = <<Garbage, Garbage>>
    /\ r_latest' = Garbage
    /\ r_after_start' = FALSE
    /\ readerPc' = "idle"
    /\ UNCHANGED <<running, thread_started, callback, frame_count,
                   decode_count, bgra_write_idx, bgra_buffer, current_buf_idx,
                   buffer_count, devVars, mppVars, workerVars, callerVars,
                   obsVars>>
    /\ UNCHANGED <<extVars, cbVars>>

Reader ==
    \/ \E size_ok \in BOOLEAN : ReaderCall(size_ok)
    \/ ReaderLockCopyLo
    \/ ReaderCopyHi
    \/ ReaderUnlockReturn

\* camera_capture_frame as one call, by its arguments: the handle and the
\* destination (FALSE: NULL), the destination size, and whether the width
\* and height output pointers are given.
CaptureArgs ==
    [handle : BOOLEAN, dst : BOOLEAN,
     size : {bgra_buffer_size - 1, bgra_buffer_size}, outs : BOOLEAN]

\* lines 302-309: the checks in their order; "copy" when all pass
CaptureCheck_running_first(a) ==
    IF ~running THEN "NOT_RUNNING"
    ELSE IF ~a.handle \/ ~a.dst THEN "INVALID_PARAM"
    ELSE IF a.size < bgra_buffer_size THEN "INVALID_PARAM"
    ELSE "copy"
CaptureCheck(a) ==
    IF ~a.handle \/ ~a.dst THEN "INVALID_PARAM"
    ELSE IF ~running THEN "NOT_RUNNING"
    ELSE IF a.size < bgra_buffer_size THEN "INVALID_PARAM"
    ELSE "copy"

\* lines 301-321: the checks, then under frame_mutex the memcpy of
\* bgra_buffer[1 - bgra_write_idx], the outputs that were asked for,
\* CAMERA_OK.
CameraCaptureFrame(a) ==
    /\ frame_mutex = "free"
    /\ cap_args' = a
    /\ IF CaptureCheck(a) = "copy"
       THEN /\ cap_ret' = "OK"
            /\ cap_out' = [dst |-> bgra_buffer[1 - bgra_write_idx],
                           width |-> IF a.outs THEN width ELSE -1,
                           height |-> IF a.outs THEN height ELSE -1]
       ELSE /\ cap_ret' = CaptureCheck(a)
            /\ cap_out' = NoOutput
    /\ UNCHANGED <<ctxVars, devVars, mppVars, workerVars, callerVars,
                   readerVars, obsVars, cbVars, geomVars, initVars, convVars,
                   playerVars, stopperVars>>


\* ------------------------------------------------ camera_init, camera_deinit
\* what camera_init and camera_deinit leave alone
runVars == <<running, thread_started, callback, frame_count, decode_count,
             bgra_write_idx, bgra_buffer, frame_mutex, current_buf_idx,
             devVars, mppVars, workerVars, callerVars, readerVars, obsVars,
             cbVars, convVars, playerVars, capVars, stopperVars>>

\* a failed stage of camera_init: camera_deinit(ctx); return NULL
InitFails == initPc' = "cleanup"

\* lines 137-154: parameter check, calloc, the fields, the mutex
CameraInitCall(w, h) ==
    /\ initPc = "none"
    /\ init_req' = [width |-> w, height |-> h]
    /\ init_idx' = 0
    /\ IF w <= 0 \/ h <= 0
       THEN /\ init_ret' = "null"
            /\ UNCHANGED <<initPc, ictx, live, geomVars, buffer_count>>
       ELSE \/ \* calloc failed
               /\ init_ret' = "null"
               /\ UNCHANGED <<initPc, ictx, live, geomVars, buffer_count>>
            \/ /\ init_ret' = "pending"
               /\ live' = [live EXCEPT !.ctx = TRUE, !.mutex = TRUE]
               /\ ictx' = ZeroCtx
               /\ width' = w /\ height' = h
               /\ bgra_buffer_size' = 0
               /\ buffer_count' = 0
               /\ initPc' = "open"
    /\ UNCHANGED runVars

\* v4l2_init, lines 351-355: open
V4l2Open ==
    /\ initPc = "open"
    /\ \/ InitFails /\ UNCHANGED <<ictx, live>>
       \/ /\ ictx' = [ictx EXCEPT !.fd_open = TRUE]
          /\ live' = [live EXCEPT !.fd = TRUE]
          /\ initPc' = "querycap"
    /\ UNCHANGED <<init_ret, init_req, init_idx, geomVars, buffer_count,
                   runVars>>

\* lines 358-371: VIDIOC_QUERYCAP and the two capability bits
V4l2QueryCap ==
    /\ initPc = "querycap"
    /\ InitFails \/ initPc' = "s_fmt"
    /\ UNCHANGED <<init_ret, init_req, init_idx, ictx, live, geomVars,
                   buffer_count, runVars>>

\* lines 374-405: VIDIOC_S_FMT, the pixel format check, the driver's
\* dimensions taken over (the result of VIDIOC_S_PARM is ignored)
V4l2SetFormat(dw, dh) ==
    /\ initPc = "s_fmt"
    /\ \/ InitFails /\ UNCHANGED <<width, height>>
       \/ /\ width' = dw /\ height' = dh
          /\ initPc' = "reqbufs"
    /\ UNCHANGED <<init_ret, init_req, init_idx, ictx, live,
                   bgra_buffer_size, buffer_count, runVars>>

\* lines 408-423: VIDIOC_REQBUFS answers with granted buffers
V4l2ReqBufs(granted) ==
    /\ initPc = "reqbufs"
    /\ \/ InitFails /\ UNCHANGED <<buffer_count, init_idx>>
       \/ IF granted < 2
          THEN InitFails /\ UNCHANGED <<buffer_count, init_idx>>
          ELSE /\ buffer_count' = granted
               /\ init_idx' = 0
               /\ initPc' = "map"
    /\ UNCHANGED <<init_ret, init_req, ictx, live, geomVars, runVars>>

\* lines 439-440: the stores into v4l2_buffers[i] (line 71: 4 entries).  An
\* index past the table writes the fields laid out behind it (lines 72-75:
\* buffer_count, width, height, fps) with bytes of the mapping's length and
\* address; of these the model follows buffer_count, which keeps its value
\* or takes one of PastTable.
PastTable == {-1, 0, V4L2_BUFFER_COUNT + 2}
StartAfterStore(i, ptr) ==
    IF i \in MapSlots THEN [ictx EXCEPT !.start[i] = ptr] ELSE ictx
CountAfterStore(i) ==
    IF i \in MapSlots THEN {buffer_count} ELSE {buffer_count} \cup PastTable

\* lines 426-452: one turn of the QUERYBUF / mmap loop, or its end
V4l2MapBuffer ==
    /\ initPc = "map"
    /\ IF init_idx < buffer_count
       THEN \/ \* VIDIOC_QUERYBUF failed
               InitFails /\ UNCHANGED <<ictx, live, init_idx, buffer_count>>
            \/ \* mmap returned MAP_FAILED
               /\ ictx' = StartAfterStore(init_idx, "MAP_FAILED")
               /\ buffer_count' \in CountAfterStore(init_idx)
               /\ InitFails /\ UNCHANGED <<live, init_idx>>
            \/ /\ ictx' = StartAfterStore(init_idx, "PTR")
               /\ buffer_count' \in CountAfterStore(init_idx)
               /\ live' = [live EXCEPT !.maps = @ \cup {init_idx}]
               /\ init_idx' = init_idx + 1
               /\ UNCHANGED initPc
       ELSE /\ initPc' = "mpp_create"
            /\ init_idx' = 0
            /\ UNCHANGED <<ictx, live, buffer_count>>
    /\ UNCHANGED <<init_ret, init_req, geomVars, runVars>>

\* mpp_decoder_init, lines 518-522: mpp_create
MppCreate ==
    /\ initPc = "mpp_create"
    /\ \/ InitFails /\ UNCHANGED <<ictx, live>>
       \/ /\ ictx' = [ictx EXCEPT !.mpp_ctx = TRUE]
          /\ live' = [live EXCEPT !.mpp = TRUE]
          /\ initPc' = "mpp_init"
    /\ UNCHANGED <<init_ret, init_req, init_idx, geomVars, buffer_count,
                   runVars>>

\* lines 525-541: mpp_init, then the configuration (set up and torn down)
MppInit ==
    /\ initPc = "mpp_init"
    /\ InitFails \/ initPc' = "mpp_group"
    /\ UNCHANGED <<init_ret, init_req, init_idx, ictx, live, geomVars,
                   buffer_count, runVars>>

\* lines 544-554: the buffer group; the slot sizes from ctx->width, height
MppGroup ==
    /\ initPc = "mpp_group"
    /\ \/ InitFails /\ UNCHANGED <<ictx, live>>
       \/ /\ ictx' = [ictx EXCEPT !.frm_grp = TRUE]
          /\ live' = [live EXCEPT !.grp = TRUE]
          /\ initPc' = "mpp_alloc"
    /\ UNCHANGED <<init_ret, init_req, init_idx, geomVars, buffer_count,
                   runVars>>

\* lines 553, 562: pkt_size = ctx->width * ctx->height
PktSize == width * height
\* lines 551-554, 569
FrmSize == Align16(width) * Align16(height) * 4

\* lines 556-577: one turn of the slot allocation loop, or its end
MppAllocSlot ==
    /\ initPc = "mpp_alloc"
    /\ IF init_idx < MPP_BUFFER_COUNT
       THEN \/ \* mpp_buffer_get of the packet buffer failed
               InitFails /\ UNCHANGED <<ictx, live, init_idx>>
            \/ \* mpp_buffer_get of the frame buffer failed
               /\ ictx' = [ictx EXCEPT !.pkt_buf[init_idx] = TRUE,
                                       !.pkt_buf_size = PktSize]
               /\ live' = [live EXCEPT !.pkt = @ \cup {init_idx}]
               /\ InitFails /\ UNCHANGED init_idx
            \/ /\ ictx' = [ictx EXCEPT !.pkt_buf[init_idx] = TRUE,
                                       !.frm_buf[init_idx] = TRUE,
                                       !.pkt_buf_size = PktSize,
                                       !.frm_buf_size = FrmSize]
               /\ live' = [live EXCEPT !.pkt = @ \cup {init_idx},
                                       !.frm = @ \cup {init_idx}]
               /\ init_idx' = init_idx + 1
               /\ UNCHANGED initPc
       ELSE /\ initPc' = "bgra"
            /\ init_idx' = 0
            /\ UNCHANGED <<ictx, live>>
    /\ UNCHANGED <<init_ret, init_req, geomVars, buffer_count, runVars>>

\* line 171: ctx->bgra_buffer_size = width * height * 4, with the width and
\* height parameters of camera_init
BgraBufferSize == init_req.width * init_req.height * 4

\* lines 171-181: the two publish buffers; return the handle
BgraAlloc ==
    /\ initPc = "bgra"
    /\ bgra_buffer_size' = BgraBufferSize
    /\ \E got \in SUBSET {0, 1} :
         /\ ictx' = [ictx EXCEPT !.bgra_ptr = [i \in 0 .. 1 |-> i \in got]]
         /\ live' = [live EXCEPT !.bgra = got]
         /\ IF got = {0, 1}
            THEN initPc' = "ready" /\ init_ret' = "handle"
            ELSE InitFails /\ UNCHANGED init_ret
    /\ UNCHANGED <<init_req, init_idx, width, height, buffer_count, runVars>>

\* v4l2_deinit, line 461: start && start != MAP_FAILED.  An index past the
\* table reads the fields behind it, not the address of a mapping.
MunmapWanted_first_only(i) == i = 0 /\ ictx.start[i] = "PTR"
MunmapWanted(i) ==
    i \in MapSlots /\ ictx.start[i] \notin {"NULL", "MAP_FAILED"}

\* camera_deinit, lines 189-213 (camera_stop returns at once: not running):
\* free the publish buffers, mpp_decoder_deinit, v4l2_deinit, destroy the
\* mutex, free the context.  Called by camera_init on failure (which then
\* returns NULL) and by the application on a handle.
CameraDeinit ==
    /\ initPc \in {"cleanup", "ready"}
    /\ ~running
    /\ live' = [ctx |-> FALSE,
                mutex |-> FALSE,
                fd |-> IF ictx.fd_open THEN FALSE ELSE live.fd,
                maps |-> live.maps \ {i \in 0 .. (buffer_count - 1) :
                                         MunmapWanted(i)},
                mpp |-> IF ictx.mpp_ctx THEN FALSE ELSE live.mpp,
                grp |-> IF ictx.frm_grp THEN FALSE ELSE live.grp,
                pkt |-> live.pkt \ {i \in Slots : ictx.pkt_buf[i]},
                frm |-> live.frm \ {i \in Slots : ictx.frm_buf[i]},
                bgra |-> live.bgra \ {i \in 0 .. 1 : ictx.bgra_ptr[i]}]
    /\ ictx' = ZeroCtx
    /\ init_ret' = IF initPc = "cleanup" THEN "null" ELSE "void"
    /\ initPc' = "none"
    /\ width' = 0 /\ height' = 0 /\ bgra_buffer_size' = 0
    /\ buffer_count' = 0
    /\ UNCHANGED <<init_req, init_idx, runVars>>


\* --------------------------------------------------------- colour conversion
\* hor_stride of the decoded frame
ConvStride == Align16(ConvWidth)
ByteSamples == {0, 16, 128, 255}

\* int16 lane arithmetic of the NEON intrinsics
Wrap16(x) == ((x + 32768) % 65536) - 32768
\* x >> 8 on a signed value
Shr8(x) == x \div 256
\* r < 0 ? 0 : (r > 255 ? 255 : r)
Clamp(x) == IF x < 0 THEN 0 ELSE IF x > 255 THEN 255 ELSE x

\* lines 705-720 (and 674-689, 735-750): one pixel from luma y and the
\* chroma bytes cu (at the even column) and cv (at the odd column)
ScalarPixel(y, cu, cv) ==
    LET u == cu - 128
        v == cv - 128
        r == y + Shr8(v * 359)
        g == y - Shr8(u * 88 + v * 183)
        b == y + Shr8(u * 454)
    IN  <<Clamp(b), Clamp(g), Clamp(r), 255>>

\* lines 701, 619: uv_row = uv_plane + (i / 2) * uv_stride
Nv12ChromaRow(i) == i \div 2
\* line 731: uv_row = uv_plane + i * uv_stride
Nv16ChromaRow_halved(i) == i \div 2
Nv16ChromaRow(i) == i

\* pixel j of row i by the scalar loops, with chroma row crow
ScalarRowPixel(crow, i, j) ==
    ScalarPixel(conv_in.y[i * ConvStride + j + 1],
                conv_in.uv[crow * ConvStride + (j \div 2) * 2 + 1],
                conv_in.uv[crow * ConvStride + (j \div 2) * 2 + 1 + 1])

\* lines 627-669: lane l of the 8-pixel group starting at column j0
NeonLanePixel(crow, i, j0, l) ==
    LET uv_vec == [k \in 0 .. 7 |->
                      conv_in.uv[crow * ConvStride + (j0 \div 2) * 2 + k + 1]]
        \* vuzp_u8(uv_vec, uv_vec): even bytes twice, odd bytes twice
        u_vec == [k \in 0 .. 7 |-> uv_vec[2 * (k % 4)]]
        v_vec == [k \in 0 .. 7 |-> uv_vec[2 * (k % 4) + 1]]
        \* vcombine(vzip1(low, low), vzip1(high, high))
        u_exp == Wrap16(u_vec[4 * (l \div 4) + ((l % 4) \div 2)] - 128)
        v_exp == Wrap16(v_vec[4 * (l \div 4) + ((l % 4) \div 2)] - 128)
        y16 == conv_in.y[i * ConvStride + j0 + l + 1]
        r == Wrap16(y16 + Shr8(Wrap16(v_exp * 359)))
        g == Wrap16(y16 - Shr8(Wrap16(Wrap16(u_exp * 88)
                                      + Wrap16(v_exp * 183))))
        b == Wrap16(y16 + Shr8(Wrap16(u_exp * 454)))
    IN  <<Clamp(b), Clamp(g), Clamp(r), 255>>

\* lines 625, 673: groups of 8 while j + 7 < width, then the scalar tail
NeonRowPixel(crow, i, j) ==
    IF j < 8 * (ConvWidth \div 8)
    THEN NeonLanePixel(crow, i, 8 * (j \div 8), j % 8)
    ELSE ScalarRowPixel(crow, i, j)

\* yuv_to_bgra_cpu, lines 847-868: the function chosen for the format
CpuRowPixel(i, j) ==
    IF conv_in.fmt \in {"NV12", "NV21"}
    THEN IF conv_in.neon
         THEN NeonRowPixel(Nv12ChromaRow(i), i, j)
         ELSE ScalarRowPixel(Nv12ChromaRow(i), i, j)
    ELSE ScalarRowPixel(Nv16ChromaRow(i), i, j)

\* bgra_row = bgra_data + i * width * 4; bgra_row[j * 4 + c]
DstWithRow(dst, i) ==
    [k \in 1 .. (ConvWidth * ConvHeight * 4) |->
        IF (k - 1) \div (ConvWidth * 4) = i
        THEN CpuRowPixel(i, ((k - 1) % (ConvWidth * 4)) \div 4)[((k - 1) % 4) + 1]
        ELSE dst[k]]

\* yuv_to_bgra_rga by the step that fails ("ok": none): the import handles
\* obtained (lines 795, 806) and the releasebuffer_handle calls made
\* (lines 809, 827-828, 833-834)
RgaOutcomes == {"src_import", "dst_import", "blit", "ok"}
RgaAcquired(outcome) ==
    IF outcome = "src_import" THEN <<>>
    ELSE IF outcome = "dst_import" THEN <<"src">>
    ELSE <<"src", "dst">>
RgaReleased_leaks_src(outcome) ==
    IF outcome \in {"src_import", "dst_import"} THEN <<>>
    ELSE <<"src", "dst">>
RgaReleased(outcome) ==
    IF outcome = "src_import" THEN <<>>
    ELSE IF outcome = "dst_import" THEN <<"src">>
    ELSE <<"src", "dst">>
RgaReturn(outcome) == IF outcome = "ok" THEN 0 ELSE -1

\* decode_mjpeg_to_bgra_fast, lines 994-1010: the conversion of the decoded
\* frame into bgra_buffer[write_idx] begins
ConvStart ==
    /\ conv_pc = "idle"
    /\ conv_pc' = IF conv_in.rga THEN "rga" ELSE "cpu"
    /\ conv_row' = 0
    /\ conv_dst' = [k \in 1 .. (ConvWidth * ConvHeight * 4) |-> Unwritten]
    /\ rga' = NoRga
    /\ UNCHANGED <<conv_in, ctxVars, devVars, mppVars, workerVars,
                   callerVars, readerVars, obsVars, cbVars, geomVars,
                   initVars, playerVars, capVars,
                   stopperVars>>

\* lines 999-1005: yuv_to_bgra_rga; if (rga_ret != 0) the CPU conversion
RgaConvert ==
    /\ conv_pc = "rga"
    /\ \E outcome \in RgaOutcomes :
         /\ rga' = [ret |-> RgaReturn(outcome),
                    acquired |-> RgaAcquired(outcome),
                    released |-> RgaReleased(outcome)]
         /\ conv_pc' = IF RgaReturn(outcome) # 0 THEN "cpu" ELSE "done"
    /\ UNCHANGED <<conv_in, conv_row, conv_dst, ctxVars, devVars, mppVars,
                   workerVars, callerVars, readerVars, obsVars, cbVars,
                   geomVars, initVars, playerVars, capVars,
                   stopperVars>>

\* yuv_to_bgra_cpu: one row of the chosen function's loop, or its end
CpuConvertRow ==
    /\ conv_pc = "cpu"
    /\ IF conv_row < ConvHeight
       THEN /\ conv_dst' = DstWithRow(conv_dst, conv_row)
            /\ conv_row' = conv_row + 1
            /\ UNCHANGED conv_pc
       ELSE /\ conv_pc' = "done"
            /\ UNCHANGED <<conv_dst, conv_row>>
    /\ UNCHANGED <<conv_in, rga, ctxVars, devVars, mppVars, workerVars,
                   callerVars, readerVars, obsVars, cbVars, geomVars,
                   initVars, playerVars, capVars,
                   stopperVars>>

\* ---------------------------------------------------------- gst_video_player
\* what the player's API never assigns
nonGstVars == <<ctxVars, devVars, mppVars, workerVars, callerVars,
                readerVars, obsVars, cbVars, geomVars, initVars, convVars,
                onceVars, capVars, stopperVars>>

\* gst_player_start, line 356: if (ctx->playing) return GST_PLAYER_OK
GstStartIsNoop_never == FALSE
GstStartIsNoop == gst_playing

\* gst_player_stop, line 378: if (!ctx->playing) return GST_PLAYER_OK
GstStopIsNoop == ~gst_playing

\* time passes: get_time_us reads a later value
GstTick ==
    /\ gst_clock < MaxClock
    /\ gst_clock' = gst_clock + 1
    /\ UNCHANGED <<gst_ctx, gst_pipeline, gst_video_sink, gst_x11_window_id,
                   gst_running, gst_playing, gst_frame_count,
                   gst_start_time, gst_op, gst_ret, gst_set_state,
                   gstFieldVars, tapVars, ovlVars, nonGstVars>>

\* configurations given to gst_player_create: capture and detection
\* dimensions, positive or not
Configs ==
    [width : {4}, height : {3}, face_detect_width : {-1, 0, 2},
     face_detect_height : {0, 1}, given : {TRUE}, device : {TRUE},
     format : {"MJPEG"}, face_detect_fps : {15}]

\* the configurations gst_player_create is given when its own checks are
\* exercised: a NULL config (given FALSE), a NULL device, each format, a
\* detection rate of 0 or more
CreateConfigs ==
    [width : {4}, height : {3}, face_detect_width : {0},
     face_detect_height : {0}, given : BOOLEAN, device : BOOLEAN,
     format : {"MJPEG", "YUY2", "NV12"}, face_detect_fps : {0, 15}]

\* line 246: if (!config || !config->device) return NULL
ConfigGiven(cfg) == cfg.given /\ cfg.device

\* build_pipeline_string, lines 193-207: the caps of MJPEG and YUY2;
\* default: free(pipeline); return NULL
FormatBuilt(cfg) == cfg.format \in {"MJPEG", "YUY2"}

\* build_pipeline_string, lines 219-239: the display branch, then the
\* detection branch ending in appsink name=facesink, at face_detect_fps
\* frames a second or 10 when that is not positive
FaceFps(cfg) == IF cfg.face_detect_fps > 0 THEN cfg.face_detect_fps ELSE 10
PipelineBranches(cfg) ==
    [display |-> TRUE, tap |-> TRUE, tap_fps |-> FaceFps(cfg)]

\* The ways gst_player_create returns NULL: the parameter check (246),
\* gst_player_global_init (247), calloc (250), the malloc of
\* build_pipeline_string (184), its default case (204-206), and
\* gst_parse_launch reporting an error with or without a pipeline object
\* (277-282).
CreateFailures(cfg) ==
    IF ~ConfigGiven(cfg) THEN {"param"}
    ELSE {"global_init", "calloc", "malloc"}
         \cup (IF FormatBuilt(cfg)
               THEN {"parse_error", "parse_error_pipeline"}
               ELSE {"format"})

\* what the call has acquired when it takes the failure path: the context
\* (249), its mutex (263), the pipeline string (183), the GError and the
\* pipeline object of gst_parse_launch (274)
CreateAcquired(path) ==
    CASE path \in {"param", "global_init", "calloc"} -> {}
      [] path = "malloc" -> {"ctx", "mutex"}
      [] path = "format" -> {"ctx", "mutex", "pipeline_str"}
      [] path = "parse_error" -> {"ctx", "mutex", "pipeline_str", "error"}
      [] path = "parse_error_pipeline" ->
            {"ctx", "mutex", "pipeline_str", "error", "pipeline"}

\* what the failure path gives back: free(pipeline) (205), free(ctx) (267),
\* free(pipeline_str) (275), g_error_free and free(ctx) (279-280)
CreateReleased(path) ==
    CASE path \in {"param", "global_init", "calloc"} -> {}
      [] path = "malloc" -> {"ctx"}
      [] path = "format" -> {"pipeline_str", "ctx"}
      [] path \in {"parse_error", "parse_error_pipeline"} ->
            {"pipeline_str", "error", "ctx"}

\* gst_player_create, lines 258-259, and build_pipeline_string, lines
\* 229-230: config->face_detect_x > 0 ? config->face_detect_x : config->x
FaceDetectDim_configured(fd, dim) == fd
FaceDetectDim(fd, dim) == IF fd > 0 THEN fd ELSE dim

\* gst_player_create, lines 244-305: NULL on a bad configuration, a failed
\* calloc or a pipeline that cannot be built; otherwise the calloc'ed
\* context with its pipeline in the NULL state. The render sink is the
\* element gst_bin_get_by_name finds, or NULL.
GstPlayerCreate(sink, cfg) ==
    /\ gst_ctx = "null"
    /\ gst_op' = "create"
    /\ gst_set_state' = <<>>
    /\ \/ /\ gst_ret' = "NULL"
          /\ \E path \in CreateFailures(cfg) :
               create_left' = CreateAcquired(path) \ CreateReleased(path)
          /\ UNCHANGED <<gst_ctx, gst_pipeline, gst_video_sink,
                         gst_x11_window_id, gst_running, gst_playing,
                         gst_frame_count, gst_start_time, gst_cfg,
                         gst_face_detect_width, gst_face_detect_height,
                         gst_frame_callback, gst_app_sink, storeVars>>
       \/ /\ ConfigGiven(cfg) /\ FormatBuilt(cfg)
          /\ gst_ret' = "handle"
          /\ create_left' = {}
          /\ gst_app_sink' = PipelineBranches(cfg).tap
          /\ gst_ctx' = "live"
          /\ gst_pipeline' = "NULL"
          /\ gst_video_sink' = sink
          /\ gst_x11_window_id' = 0
          /\ gst_running' = FALSE /\ gst_playing' = FALSE
          /\ gst_frame_count' = 0 /\ gst_start_time' = 0
          /\ gst_cfg' = cfg
          /\ gst_face_detect_width' =
                FaceDetectDim(cfg.face_detect_width, cfg.width)
          /\ gst_face_detect_height' =
                FaceDetectDim(cfg.face_detect_height, cfg.height)
          /\ gst_frame_callback' = FALSE
          /\ face_source_width' = gst_face_detect_width'
          /\ face_source_height' = gst_face_detect_height'
          /\ UNCHANGED <<face_boxes, face_box_count, count_by, source_by>>
    /\ UNCHANGED <<gst_clock, gst_stats, tapVars, videoVars, face_box_mutex,
                   setVars, drawVars, nonGstVars>>

\* gst_player_set_window, lines 328-338
GstPlayerSetWindow(id) ==
    /\ gst_op' = "set_window"
    /\ gst_set_state' = <<>>
    /\ IF gst_ctx = "null" \/ ~gst_video_sink
       THEN /\ gst_ret' = "INVALID_PARAM"
            /\ UNCHANGED gst_x11_window_id
       ELSE /\ gst_x11_window_id' = id
            /\ gst_ret' = "OK"
    /\ UNCHANGED <<gst_ctx, gst_pipeline, gst_video_sink, gst_running,
                   gst_playing, gst_frame_count, gst_start_time, gst_clock,
                   gstFieldVars, tapVars, ovlVars, nonGstVars>>

\* gst_player_set_frame_callback, lines 340-350
GstPlayerSetFrameCallback(cb) ==
    /\ gst_op' = "set_frame_callback"
    /\ gst_set_state' = <<>>
    /\ IF gst_ctx = "null"
       THEN /\ gst_ret' = "INVALID_PARAM"
            /\ UNCHANGED gst_frame_callback
       ELSE /\ gst_frame_callback' = cb
            /\ gst_ret' = "OK"
    /\ UNCHANGED <<gst_ctx, gst_pipeline, gst_video_sink, gst_x11_window_id,
                   gst_running, gst_playing, gst_frame_count,
                   gst_start_time, gst_clock, gst_cfg,
                   gst_face_detect_width, gst_face_detect_height, gst_stats,
                   gst_app_sink, create_left, tapVars, ovlVars, nonGstVars>>

\* line 366: ctx->playing = false when the state change failed
PlayingAfterFailure_left_set == TRUE
PlayingAfterFailure == FALSE

\* lines 390-394: return ctx && ctx->playing
gst_player_is_playing == gst_ctx = "live" /\ gst_playing

\* gst_player_start, lines 352-372. gst_element_set_state either fails, and
\* the pipeline stays as it was, or takes the pipeline to PLAYING.
GstPlayerStart ==
    /\ gst_op' = "start"
    /\ IF gst_ctx = "null"
       THEN /\ gst_ret' = "INVALID_PARAM"
            /\ gst_set_state' = <<>>
            /\ UNCHANGED <<gst_pipeline, gst_running, gst_playing,
                           gst_frame_count, gst_start_time, tap_frames,
                           tap_cb_count>>
       ELSE IF GstStartIsNoop
       THEN /\ gst_ret' = "OK"
            /\ gst_set_state' = <<>>
            /\ UNCHANGED <<gst_pipeline, gst_running, gst_playing,
                           gst_frame_count, gst_start_time, tap_frames,
                           tap_cb_count>>
       ELSE /\ gst_start_time' = gst_clock
            /\ gst_frame_count' = 0
            /\ tap_frames' = 0 /\ tap_cb_count' = 0
            /\ gst_set_state' = <<"PLAYING">>
            /\ \/ /\ gst_ret' = "PIPELINE_FAILED"
                  /\ gst_running' = FALSE
                  /\ gst_playing' = PlayingAfterFailure
                  /\ UNCHANGED gst_pipeline
               \/ /\ gst_ret' = "OK"
                  /\ gst_running' = TRUE /\ gst_playing' = TRUE
                  /\ gst_pipeline' = "PLAYING"
    /\ UNCHANGED <<gst_ctx, gst_video_sink, gst_x11_window_id, gst_clock,
                   gstFieldVars, tap_pc, tap_cb, tap_refs, tap_maps,
                   tap_ret, tap_kind, ovlVars, nonGstVars>>

\* the body of gst_player_stop on a live context, lines 378-387: the states
\* requested of the pipeline
StopRequests == IF GstStopIsNoop THEN <<>> ELSE <<"NULL">>

\* gst_player_stop, lines 374-388. gst_element_set_state(NULL) returns once
\* the streaming threads have left on_new_sample and on_cairo_draw; the
\* call is taken when it can complete.
GstPlayerStop ==
    /\ (gst_ctx = "live" /\ ~GstStopIsNoop)
       => tap_pc = "idle" /\ draw_pc = "idle"
    /\ gst_op' = "stop"
    /\ IF gst_ctx = "null"
       THEN /\ gst_ret' = "INVALID_PARAM"
            /\ gst_set_state' = <<>>
            /\ UNCHANGED <<gst_pipeline, gst_running, gst_playing>>
       ELSE /\ gst_ret' = "OK"
            /\ gst_set_state' = StopRequests
            /\ IF GstStopIsNoop
               THEN UNCHANGED <<gst_pipeline, gst_running, gst_playing>>
               ELSE /\ gst_running' = FALSE /\ gst_playing' = FALSE
                    /\ gst_pipeline' = "NULL"
    /\ UNCHANGED <<gst_ctx, gst_video_sink, gst_x11_window_id,
                   gst_frame_count, gst_start_time, gst_clock, gstFieldVars,
                   tapVars, ovlVars, nonGstVars>>

\* gst_player_destroy, lines 307-326: gst_player_stop, the elements
\* unreferenced, the pipeline set to NULL and unreferenced, the context
\* freed. The streaming threads have left their handlers when the pipeline
\* is NULL, and no other call is under way on the handle.
GstPlayerDestroy ==
    /\ gst_ctx = "live"
       => tap_pc = "idle" /\ draw_pc = "idle" /\ set_pc = "idle"
    /\ gst_op' = "destroy"
    /\ gst_ret' = "void"
    /\ IF gst_ctx = "null"
       THEN UNCHANGED <<gst_ctx, gst_pipeline, gst_video_sink,
                        gst_x11_window_id, gst_running, gst_playing,
                        gst_frame_count, gst_start_time, gst_set_state,
                        gst_cfg, gst_face_detect_width,
                        gst_face_detect_height, gst_frame_callback,
                        gst_app_sink,
                        storeVars, videoVars, set_arg, set_ret, updates,
                        draw_dims, draw_used, draw_rects>>
       ELSE /\ gst_set_state' = StopRequests \o <<"NULL">>
            /\ gst_ctx' = "null"
            /\ gst_pipeline' = "NULL"
            /\ gst_video_sink' = FALSE
            /\ gst_x11_window_id' = 0
            /\ gst_running' = FALSE /\ gst_playing' = FALSE
            /\ gst_frame_count' = 0 /\ gst_start_time' = 0
            /\ gst_cfg' = NoCfg
            /\ gst_face_detect_width' = 0 /\ gst_face_detect_height' = 0
            /\ gst_frame_callback' = FALSE
            /\ gst_app_sink' = FALSE
            /\ face_boxes' = [k \in 1 .. MAX_FACE_BOXES |-> NoBox]
            /\ face_box_count' = 0
            /\ face_source_width' = 0 /\ face_source_height' = 0
            /\ count_by' = 0 /\ source_by' = 0
            /\ video_width' = 0 /\ video_height' = 0
            /\ set_arg' = NoSetArg /\ set_ret' = "none" /\ updates' = 0
            /\ draw_dims' = NoDims /\ draw_used' = {}
            /\ draw_rects' = <<>>
    /\ UNCHANGED <<gst_clock, gst_stats, create_left, tapVars,
                   face_box_mutex, set_pc, draw_pc, draw_i, nonGstVars>>

\* gst_player_get_stats, lines 410-422, called with both output pointers:
\* *fps is written only if elapsed > 0 and is then
\* frame_count * 1000000 / elapsed, *dropped_frames is 0
GstPlayerGetStats ==
    /\ gst_op' = "get_stats"
    /\ gst_ret' = "void"
    /\ gst_set_state' = <<>>
    /\ IF gst_ctx = "null"
       THEN gst_stats' = [fps_set |-> TRUE, fps_num |-> 0, fps_den |-> 1,
                          dropped_frames |-> 0]
       ELSE LET elapsed == gst_clock - gst_start_time IN
            gst_stats' = IF elapsed > 0
                         THEN [fps_set |-> TRUE,
                               fps_num |-> gst_frame_count * 1000000,
                               fps_den |-> elapsed,
                               dropped_frames |-> 0]
                         ELSE [fps_set |-> FALSE, fps_num |-> 0,
                               fps_den |-> 1, dropped_frames |-> 0]
    /\ UNCHANGED <<gst_ctx, gst_pipeline, gst_video_sink, gst_x11_window_id,
                   gst_running, gst_playing, gst_frame_count,
                   gst_start_time, gst_clock, gst_cfg,
                   gst_face_detect_width, gst_face_detect_height,
                   gst_frame_callback, gst_app_sink, create_left, tapVars,
                   ovlVars, nonGstVars>>

\* ------------------------------------------------------------- on_new_sample
\* what the app-sink hands to the handler: no sample, a sample without a
\* buffer, a buffer that cannot be mapped, a readable buffer
SampleKinds == {"none", "nobuf", "nomap", "ok"}

\* line 156: samples pulled; line 166: buffers mapped
TapPulls(kind) == IF kind = "none" THEN 0 ELSE 1
TapMaps(kind) == IF kind = "ok" THEN 1 ELSE 0

\* lines 161 and 177: gst_sample_unref on the paths that pulled a sample
TapUnrefs_only_mapped(kind) == TapMaps(kind)
TapUnrefs(kind) == TapPulls(kind)

\* lines 166-167: the frame callback is invoked
TapCalls(kind) == kind = "ok" /\ gst_frame_callback

\* on_new_sample, lines 151-173: from the signal to the frame callback's
\* invocation, or to the return when it is not invoked
OnNewSample(kind) ==
    /\ tap_pc = "idle"
    /\ gst_ctx = "live" /\ gst_pipeline = "PLAYING"
    /\ gst_app_sink
    /\ tap_frames < MaxTapFrames
    /\ tap_frames' = tap_frames + 1
    /\ tap_kind' = kind
    /\ IF ~gst_running
       THEN /\ tap_ret' = "OK"
            /\ UNCHANGED <<tap_pc, tap_cb, tap_cb_count, tap_refs, tap_maps>>
       ELSE IF TapCalls(kind)
       THEN /\ tap_pc' = "in_cb"
            /\ tap_cb' = [running |-> gst_running,
                          width |-> gst_face_detect_width,
                          height |-> gst_face_detect_height,
                          stride |-> gst_face_detect_width * 4]
            /\ tap_cb_count' = tap_cb_count + 1
            /\ tap_refs' = tap_refs + TapPulls(kind)
            /\ tap_maps' = tap_maps + TapMaps(kind)
            /\ tap_ret' = "pending"
       ELSE /\ tap_refs' = tap_refs + TapPulls(kind) - TapUnrefs(kind)
            /\ tap_ret' = "OK"
            /\ UNCHANGED <<tap_pc, tap_cb, tap_cb_count, tap_maps>>
    /\ UNCHANGED <<gstVars, gstFieldVars, ovlVars, nonGstVars>>

\* on_new_sample, lines 174-178: the frame callback has returned
OnNewSampleReturn ==
    /\ tap_pc = "in_cb"
    /\ tap_maps' = tap_maps - 1
    /\ tap_refs' = tap_refs - 1
    /\ tap_cb' = NoTapCall
    /\ tap_ret' = "OK"
    /\ tap_pc' = "idle"
    /\ UNCHANGED <<tap_cb_count, tap_kind, tap_frames, gstVars,
                   gstFieldVars, ovlVars, nonGstVars>>

\* ------------------------------------------------------------ face box store
\* what the overlay's callers and callbacks never assign
nonOvlVars == <<gstVars, gstFieldVars, tapVars, nonGstVars>>

\* the gst_face_box_t a caller passes as box k of update u: centre, size
\* and score (in hundredths) in source pixels
BoxOf(u, k) ==
    [center_x |-> 2 * k + u, center_y |-> k + 1, width |-> 2 * u,
     height |-> 2 * u - 1, score |-> IF (u + k) % 2 = 0 THEN 75 ELSE 0]

\* what callers pass: a box array or NULL with a count, and the source
\* dimensions, each given or left 0
BoxArgs ==
    {<<TRUE, 0>>, <<TRUE, 2>>, <<TRUE, MAX_FACE_BOXES + 1>>, <<FALSE, 2>>}
SourceArgs == {<<0, 1>>, <<2, 0>>}

\* gst_player_set_face_boxes, line 436:
\* n = count < MAX_FACE_BOXES ? count : MAX_FACE_BOXES
CopyCount_uncapped(count) == count
CopyCount(count) == IF count < MAX_FACE_BOXES THEN count ELSE MAX_FACE_BOXES

\* lines 439-440: source_x > 0 ? source_x : ctx->face_detect_x
SourceDim_as_passed(source, detect) == source
SourceDim(source, detect) == IF source > 0 THEN source ELSE detect

\* gst_player_set_face_boxes, lines 424-431: the call is made
SetFaceBoxes(boxes, count, sw, sh) ==
    /\ gst_ctx = "live"
    /\ set_pc = "idle"
    /\ updates < MaxUpdates
    /\ updates' = updates + 1
    /\ set_arg' = [call |-> "set", u |-> updates + 1, boxes |-> boxes,
                   count |-> count, source_width |-> sw,
                   source_height |-> sh]
    /\ set_ret' = "pending"
    /\ set_pc' = "lock"
    /\ UNCHANGED <<storeVars, videoVars, face_box_mutex, drawVars,
                   nonOvlVars>>

\* gst_player_clear_face_boxes, lines 449-452: the call is made
ClearFaceBoxes ==
    /\ gst_ctx = "live"
    /\ set_pc = "idle"
    /\ updates < MaxUpdates
    /\ updates' = updates + 1
    /\ set_arg' = [call |-> "clear", u |-> updates + 1, boxes |-> FALSE,
                   count |-> 0, source_width |-> 0, source_height |-> 0]
    /\ set_ret' = "pending"
    /\ set_pc' = "lock"
    /\ UNCHANGED <<storeVars, videoVars, face_box_mutex, drawVars,
                   nonOvlVars>>

\* lines 433 and 454: pthread_mutex_lock; line 435: if (boxes && count > 0)
SetLock ==
    /\ set_pc = "lock"
    /\ face_box_mutex = "free"
    /\ face_box_mutex' = "caller"
    /\ set_pc' = IF set_arg.call = "set" /\ set_arg.boxes
                    /\ set_arg.count > 0
                 THEN "copy" ELSE "zero"
    /\ UNCHANGED <<storeVars, videoVars, set_arg, set_ret, updates,
                   drawVars, nonOvlVars>>

\* lines 436-437: memcpy of n boxes
SetCopy ==
    /\ set_pc = "copy"
    /\ face_boxes' = [k \in 1 .. MAX_FACE_BOXES |->
                        IF k <= CopyCount(set_arg.count)
                        THEN [u |-> set_arg.u, k |-> k]
                        ELSE face_boxes[k]]
    /\ set_pc' = "count"
    /\ UNCHANGED <<face_box_count, face_source_width, face_source_height,
                   count_by, source_by, videoVars, face_box_mutex, set_arg,
                   set_ret, updates, drawVars, nonOvlVars>>

\* line 438: ctx->face_box_count = n
SetCount ==
    /\ set_pc = "count"
    /\ face_box_count' = CopyCount(set_arg.count)
    /\ count_by' = set_arg.u
    /\ set_pc' = "source"
    /\ UNCHANGED <<face_boxes, face_source_width, face_source_height,
                   source_by, videoVars, face_box_mutex, set_arg, set_ret,
                   updates, drawVars, nonOvlVars>>

\* lines 439-440: the source dimensions
SetSource ==
    /\ set_pc = "source"
    /\ face_source_width' =
          SourceDim(set_arg.source_width, gst_face_detect_width)
    /\ face_source_height' =
          SourceDim(set_arg.source_height, gst_face_detect_height)
    /\ source_by' = set_arg.u
    /\ set_pc' = "unlock"
    /\ UNCHANGED <<face_boxes, face_box_count, count_by, videoVars,
                   face_box_mutex, set_arg, set_ret, updates, drawVars,
                   nonOvlVars>>

\* lines 442 and 455: ctx->face_box_count = 0
SetZero ==
    /\ set_pc = "zero"
    /\ face_box_count' = 0
    /\ count_by' = set_arg.u
    /\ set_pc' = "unlock"
    /\ UNCHANGED <<face_boxes, face_source_width, face_source_height,
                   source_by, videoVars, face_box_mutex, set_arg, set_ret,
                   updates, drawVars, nonOvlVars>>

\* lines 445-446 and 456: pthread_mutex_unlock and the return
SetUnlock ==
    /\ set_pc = "unlock"
    /\ face_box_mutex' = "free"
    /\ set_ret' = IF set_arg.call = "set" THEN "OK" ELSE "void"
    /\ set_pc' = "idle"
    /\ UNCHANGED <<storeVars, videoVars, set_arg, updates, drawVars,
                   nonOvlVars>>

\* ------------------------------------------------------------- cairooverlay
\* on_caps_changed, lines 137-148: gst_structure_get_int writes a dimension
\* when the caps structure holds it as an integer; its result is not looked
\* at
OnCapsChanged(w, h, has_w, has_h) ==
    /\ gst_ctx = "live" /\ gst_pipeline = "PLAYING"
    /\ video_width' = IF has_w THEN w ELSE video_width
    /\ video_height' = IF has_h THEN h ELSE video_height
    /\ UNCHANGED <<storeVars, face_box_mutex, setVars, drawVars,
                   nonOvlVars>>

\* on_cairo_draw, lines 95 and 133: the callback takes and releases
\* face_box_mutex
DrawHoldsMutex_never == FALSE
DrawHoldsMutex == TRUE

\* line 97: nothing is drawn
DrawSkips ==
    face_box_count <= 0 \/ video_width <= 0 \/ face_source_width <= 0

\* lines 102-121: the rectangle stroked for a box, as exact fractions.
\* scale_x = video_width / source_width, cx = center_x * scale_x,
\* w = width * scale_x, x = cx - w / 2: x = x_num / (2 * source_width),
\* w = w_num / (2 * source_width), and likewise y and h over
\* 2 * source_height.
HalfOf_whole(num) == 2 * num
HalfOf(num) == num
RectOf(box, dims) ==
    [x_num |-> 2 * box.center_x * dims.video_width
               - HalfOf(box.width * dims.video_width),
     y_num |-> 2 * box.center_y * dims.video_height
               - HalfOf(box.height * dims.video_height),
     w_num |-> 2 * box.width * dims.video_width,
     h_num |-> 2 * box.height * dims.video_height,
     x_den |-> 2 * dims.source_width,
     y_den |-> 2 * dims.source_height,
     \* lines 124-129: the confidence label
     label |-> box.score > 0]

\* on_cairo_draw, lines 92-95: the draw signal, the lock
DrawBegin ==
    /\ gst_ctx = "live" /\ gst_pipeline = "PLAYING"
    /\ draw_pc = "idle"
    /\ DrawHoldsMutex => face_box_mutex = "free"
    /\ face_box_mutex' = IF DrawHoldsMutex THEN "draw" ELSE face_box_mutex
    /\ draw_pc' = "check"
    /\ draw_i' = 0
    /\ draw_dims' = NoDims
    /\ draw_used' = {}
    /\ draw_rects' = <<>>
    /\ UNCHANGED <<storeVars, videoVars, setVars, nonOvlVars>>

\* lines 97-103: the early return, or the scales
DrawCheck ==
    /\ draw_pc = "check"
    /\ IF DrawSkips
       THEN /\ draw_pc' = "unlock"
            /\ draw_used' = IF face_box_count <= 0 THEN {count_by}
                            ELSE {count_by, source_by}
            /\ UNCHANGED draw_dims
       ELSE /\ draw_pc' = "loop"
            /\ draw_used' = {count_by, source_by}
            /\ draw_dims' = [video_width |-> video_width,
                             video_height |-> video_height,
                             source_width |-> face_source_width,
                             source_height |-> face_source_height]
    /\ UNCHANGED <<draw_i, draw_rects, storeVars, videoVars, face_box_mutex,
                   setVars, nonOvlVars>>

\* lines 106-131: one turn of the loop, or its end
DrawBox ==
    /\ draw_pc = "loop"
    /\ IF draw_i < face_box_count /\ draw_i < MAX_FACE_BOXES
       THEN /\ draw_rects' =
                 Append(draw_rects,
                        [box |-> face_boxes[draw_i + 1],
                         rect |-> RectOf(BoxOf(face_boxes[draw_i + 1].u,
                                               face_boxes[draw_i + 1].k),
                                         draw_dims)])
            /\ draw_used' = draw_used \cup {count_by,
                                            face_boxes[draw_i + 1].u}
            /\ draw_i' = draw_i + 1
            /\ UNCHANGED draw_pc
       ELSE /\ draw_pc' = "unlock"
            /\ draw_used' = draw_used \cup {count_by}
            /\ UNCHANGED <<draw_i, draw_rects>>
    /\ UNCHANGED <<draw_dims, storeVars, videoVars, face_box_mutex, setVars,
                   nonOvlVars>>

\* lines 98 and 133: pthread_mutex_unlock and the return
DrawUnlock ==
    /\ draw_pc = "unlock"
    /\ face_box_mutex' = IF DrawHoldsMutex THEN "free" ELSE face_box_mutex
    /\ draw_pc' = "idle"
    /\ draw_i' = 0
    /\ draw_dims' = NoDims
    /\ draw_used' = {}
    /\ draw_rects' = <<>>
    /\ UNCHANGED <<storeVars, videoVars, setVars, nonOvlVars>>

\* --------------------------------------------------- gst_player_global_init
\* what gst_player_global_init never assigns
nonOnceVars == <<ctxVars, devVars, mppVars, workerVars, callerVars,
                 readerVars, obsVars, cbVars, geomVars, initVars, convVars,
                 gstVars, gstFieldVars, tapVars, ovlVars, capVars,
                 stopperVars>>

\* line 73: if (g_gst_initialized) return GST_PLAYER_OK, entered directly or
\* from gst_player_create (line 247)
GlobalInitEnter(t, via) ==
    /\ gi_pc[t] = "idle"
    /\ gi_calls < MaxInitCalls
    /\ gi_calls' = gi_calls + 1
    /\ gi_via' = [gi_via EXCEPT ![t] = via]
    /\ IF g_gst_initialized
       THEN /\ gi_ret' = [gi_ret EXCEPT ![t] = "OK"]
            /\ UNCHANGED gi_pc
       ELSE /\ gi_pc' = [gi_pc EXCEPT ![t] = "init_check"]
            /\ gi_ret' = [gi_ret EXCEPT ![t] = "pending"]
    /\ UNCHANGED <<g_gst_initialized, gst_init_runs, nonOnceVars>>

\* lines 75-80: gst_init_check; on failure return INIT_FAILED
GlobalInitCheck(t, ok) ==
    /\ gi_pc[t] = "init_check"
    /\ IF ok
       THEN /\ gst_init_runs' = gst_init_runs + 1
            /\ gi_pc' = [gi_pc EXCEPT ![t] = "set_flag"]
            /\ UNCHANGED gi_ret
       ELSE /\ gi_pc' = [gi_pc EXCEPT ![t] = "idle"]
            /\ gi_ret' = [gi_ret EXCEPT ![t] = "INIT_FAILED"]
            /\ UNCHANGED gst_init_runs
    /\ UNCHANGED <<g_gst_initialized, gi_via, gi_calls, nonOnceVars>>

\* lines 82-84: g_gst_initialized = true; return GST_PLAYER_OK
GlobalInitSetFlag(t) ==
    /\ gi_pc[t] = "set_flag"
    /\ g_gst_initialized' = TRUE
    /\ gi_pc' = [gi_pc EXCEPT ![t] = "idle"]
    /\ gi_ret' = [gi_ret EXCEPT ![t] = "OK"]
    /\ UNCHANGED <<gst_init_runs, gi_via, gi_calls, nonOnceVars>>

\* ----------------------------------------------------------- specifications
Caller ==
    \/ \E cb \in BOOLEAN : CameraStart(cb)
    \/ CameraStartWait
    \/ CameraStop
    \/ CameraStopJoin

Next ==
    \/ Caller
    \/ Worker
    \/ Reader
    \/ DeviceFill(MaxFrames)

Spec == Init /\ [][Next]_vars

\* Scheduling: a thread that can take a step of its own code eventually
\* takes it, and an ioctl(VIDIOC_DQBUF) that is issued gets the driver's
\* answer for the queue as it is. Nothing obliges the callers to call, the
\* driver to deliver a frame, or the device to fail.
FairSpec ==
    /\ Spec
    /\ WF_vars(WorkerRuns)
    /\ WF_vars(WorkerDqbufGets("OK") \/ WorkerDqbufGets("EAGAIN"))
    /\ WF_vars(CameraStartWait)
    /\ WF_vars(CameraStopJoin)
    /\ WF_vars(ReaderLockCopyLo \/ ReaderCopyHi \/ ReaderUnlockReturn)

\* The capture side alone over a longer run: camera_start, no camera_stop,
\* no reader.
NextDec ==
    \/ \E cb \in BOOLEAN : CameraStart(cb)
    \/ CameraStartWait
    \/ Worker
    \/ DeviceFill(MaxDecFrames)

SpecDec == Init /\ [][NextDec]_vars

\* camera_capture_frame called with every kind of argument while one caller
\* starts and stops the capture and the worker publishes a frame.
NextCapture ==
    \/ Caller
    \/ Worker
    \/ DeviceFill(MaxCapFrames)
    \/ \E a \in CaptureArgs : CameraCaptureFrame(a)

SpecCapture == Init /\ [][NextCapture]_vars

\* One thread calls camera_start while a second calls camera_stop; once
\* neither is inside a call, camera_deinit may free the context.  No call
\* is made on the handle after that, and camera_start is not called while
\* the second thread is inside camera_stop.
NextRace ==
    \/ /\ initPc = "ready" /\ stopperPc = "idle"
       /\ \E cb \in BOOLEAN : CameraStart(cb)
    \/ CameraStartWait
    \/ initPc = "ready" /\ CameraStopOther
    \/ CameraStopOtherJoin
    \/ callerPc = "idle" /\ stopperPc = "idle" /\ CameraDeinit
    \/ Worker
    \/ DeviceFill(MaxCapFrames)

SpecRace == Init /\ [][NextRace]_vars

\* camera_init and camera_deinit alone, from no context, against a driver
\* and allocators that may refuse at every stage.
NextInit ==
    \/ \E w \in 0 .. MaxWidth, h \in 0 .. MaxHeight : CameraInitCall(w, h)
    \/ V4l2Open
    \/ V4l2QueryCap
    \/ \E dw \in 1 .. MaxWidth, dh \in 1 .. MaxHeight : V4l2SetFormat(dw, dh)
    \/ \E granted \in 0 .. MaxGranted : V4l2ReqBufs(granted)
    \/ V4l2MapBuffer
    \/ MppCreate
    \/ MppInit
    \/ MppGroup
    \/ MppAllocSlot
    \/ BgraAlloc
    \/ CameraDeinit

SpecInit == InitNoContext /\ [][NextInit]_vars

\* camera_init on a driver that answers VIDIOC_REQBUFS with any count up to
\* one more than the table holds (the driver may raise the requested count)
NextGrant ==
    \/ NextInit
    \/ \E granted \in (MaxGranted + 1) .. (V4L2_BUFFER_COUNT + 1) :
          V4l2ReqBufs(granted)

SpecGrant == InitNoContext /\ [][NextGrant]_vars

\* The colour conversion alone: a decoded frame whose planes are ramps
\* starting at sampled bytes, in each of the four formats and each build.
InitConv ==
    /\ InitIdle
    /\ buffer_count = 0
    /\ width = 0 /\ height = 0 /\ bgra_buffer_size = 0
    /\ initPc = "none" /\ init_ret = "none"
    /\ init_req = [width |-> 0, height |-> 0]
    /\ init_idx = 0
    /\ ictx = ZeroCtx
    /\ live = LiveNone
    /\ conv_pc = "idle"
    /\ \E fmt \in {"NV12", "NV21", "NV16", "NV61"}, neon, hw \in BOOLEAN,
          y0, u0, v0 \in ByteSamples :
          conv_in = [fmt |-> fmt, neon |-> neon, rga |-> hw,
                     y |-> [k \in 1 .. (ConvStride * ConvHeight) |->
                              (y0 + 37 * (k - 1)) % 256],
                     uv |-> [k \in 1 .. (ConvStride * ConvHeight) |->
                               ((IF k % 2 = 1 THEN u0 ELSE v0)
                                + 53 * ((k - 1) \div 2)) % 256]]
    /\ conv_row = 0
    /\ conv_dst = <<>>
    /\ rga = NoRga

NextConv ==
    \/ ConvStart
    \/ RgaConvert
    \/ CpuConvertRow

SpecConv == InitConv /\ [][NextConv]_vars

\* The player alone: its API called in any order on one handle while time
\* passes and the streaming thread delivers samples to the detection tap.
NextGst ==
    \/ GstTick
    \/ \E sink \in BOOLEAN, cfg \in Configs : GstPlayerCreate(sink, cfg)
    \/ \E id \in 1 .. MaxWindow : GstPlayerSetWindow(id)
    \/ \E cb \in BOOLEAN : GstPlayerSetFrameCallback(cb)
    \/ GstPlayerStart
    \/ GstPlayerStop
    \/ GstPlayerDestroy
    \/ GstPlayerGetStats
    \/ \E kind \in SampleKinds : OnNewSample(kind)
    \/ OnNewSampleReturn

SpecGst == InitNoContext /\ [][NextGst]_vars

\* gst_player_create given every kind of configuration, and the player it
\* returns started, tapped, stopped and destroyed.
NextCreate ==
    \/ \E cfg \in CreateConfigs : GstPlayerCreate(TRUE, cfg)
    \/ \E cb \in BOOLEAN : GstPlayerSetFrameCallback(cb)
    \/ GstPlayerStart
    \/ GstPlayerStop
    \/ GstPlayerDestroy
    \/ \E kind \in SampleKinds : OnNewSample(kind)
    \/ OnNewSampleReturn

SpecCreate == InitNoContext /\ [][NextCreate]_vars

\* The detection overlay of one player: created, started, then updated by
\* a caller thread while the streaming thread reports caps and draws.
NextOverlay ==
    \/ \E cfg \in {c \in Configs : c.face_detect_width >= 0
                                    /\ c.face_detect_height > 0} :
          GstPlayerCreate(TRUE, cfg)
    \/ GstPlayerStart
    \/ \E b \in BoxArgs, s \in SourceArgs :
          SetFaceBoxes(b[1], b[2], s[1], s[2])
    \/ ClearFaceBoxes
    \/ SetLock
    \/ SetCopy
    \/ SetCount
    \/ SetSource
    \/ SetZero
    \/ SetUnlock
    \/ \E w \in {4, 8}, has_h \in BOOLEAN :
          OnCapsChanged(w, (3 * w) \div 4, TRUE, has_h)
    \/ DrawBegin
    \/ DrawCheck
    \/ DrawBox
    \/ DrawUnlock

SpecOverlay == InitNoContext /\ [][NextOverlay]_vars

\* The process-wide initialisation alone: threads that call
\* gst_player_global_init or gst_player_create at any time.
NextOnce ==
    \/ \E t \in 1 .. MaxThreads, via \in {"global_init", "create"} :
          GlobalInitEnter(t, via)
    \/ \E t \in 1 .. MaxThreads, ok \in BOOLEAN : GlobalInitCheck(t, ok)
    \/ \E t \in 1 .. MaxThreads : GlobalInitSetFlag(t)

SpecOnce == InitNoContext /\ [][NextOnce]_vars

\* ------------------------------------------------------------------ claims

\* C1: in every interleaving of camera_capture_frame with the worker's
\* convert-then-toggle sequence, the publish buffer the reader is copying
\* from is never the one the worker is converting a frame into.
ReaderWriterDisjoint ==
    ~(readerPc = "copying" /\ workerPc = "conv_hi"
      /\ r_read_idx = w_write_idx)

\* C2: a camera_capture_frame call made after camera_start returned, that
\* completes its copy while the camera is running (and so returns OK), has
\* copied one complete decoded frame, the one most recently published when
\* the copy started, whatever number of frames was decoded so far.
CaptureCopiesLatestFrame ==
    (readerPc = "copied" /\ r_after_start /\ running) =>
        /\ r_latest # Garbage
        /\ r_dst = <<r_latest, r_latest>>

\* C3: while streaming every one of the buffer_count buffers is either in
\* one of the driver's queues or the buffer the worker dequeued, never both,
\* never neither; queued + dequeued = buffer_count and the worker holds at
\* most one.
BufferOwnership ==
    streaming =>
        /\ \A i \in Buffers : (i \in KernelOwned) # (w_buf.index = i)
        /\ Len(incoming) + Len(done) + (IF w_buf = NoBuf THEN 0 ELSE 1)
               = buffer_count
BufferOwnershipWitness ==
    /\ streaming
    /\ w_buf # NoBuf
    /\ done # <<>>
    /\ workerPc = "fetch"

\* C4: whenever the worker is at the top of its loop or about to dequeue, it
\* holds no buffer: the buffer of the iteration before was handed to QBUF,
\* whether its decode succeeded, failed, or it was empty.
RequeuedEveryIteration ==
    workerPc \in {"check", "select", "dqbuf"} => w_buf = NoBuf
RequeuedEveryIterationWitness ==
    /\ workerPc = "check"
    /\ running
    /\ frame_count = 2
    /\ decode_count = 1
    /\ w_buf = NoBuf
    /\ Len(incoming) + Len(done) = buffer_count

\* C5: no two tasks outstanding in the decoder (submitted to the input port,
\* not yet retrieved from the output port) use the same decode slot.
OneSubmissionPerSlot ==
    \A i, j \in 1 .. Len(mpp_pending) :
        i # j => mpp_pending[i].slot # mpp_pending[j].slot

\* C6: a camera_start call made while running, and a camera_stop call made
\* while not running, return OK and change nothing of the context, the
\* driver, the decoder or the worker.
IdempotentStartStop ==
    [][ /\ callerPc = "idle"
        /\ callerVars' # callerVars
        /\ \/ last_op' = "start" /\ running
           \/ last_op' = "stop" /\ ~running
        => /\ last_ret' = "OK"
           /\ callerPc' = "idle"
           /\ UNCHANGED <<ctxVars, devVars, mppVars, workerVars, obsVars,
                          geomVars, cbVars>>
      ]_vars
IdempotentStartStopWitness ==
    /\ callerPc = "idle"
    /\ last_op = "start" /\ last_noop /\ last_ret = "OK"
    /\ running
    /\ workerPc = "in_cb"

\* C7: once camera_stop has returned, the worker thread is gone and joined,
\* streaming is off (after a stop that found the camera running: STREAMOFF
\* was issued, nothing is queued), camera_is_running is false, and with no
\* worker no frame callback runs.
StopJoinsAndQuiets ==
    (callerPc = "idle" /\ last_op = "stop") =>
        /\ workerPc = "none"
        /\ ~thread_started
        /\ ~streaming
        /\ ~last_noop => (incoming = <<>> /\ done = <<>>)
        /\ ~camera_is_running
StopJoinsAndQuietsWitness ==
    /\ callerPc = "idle"
    /\ last_op = "stop" /\ ~last_noop /\ last_ret = "OK"
    /\ decode_count > 0
    /\ callback

\* C8: once camera_stop waits in pthread_join, it eventually returns,
\* whatever the device does in the worker's current iteration.
StopEventuallyReturns ==
    (callerPc = "stop_join") ~> (callerPc = "idle")

\* C9: when VIDIOC_DQBUF answers EAGAIN the worker goes back to the top of
\* its loop, without counting a frame and without exiting.
EagainSurfaces ==
    [][ (workerPc = "dqbuf" /\ w_errno # "EAGAIN" /\ w_errno' = "EAGAIN")
        => (workerPc' = "check" /\ frame_count' = frame_count) ]_vars

\* C10: frame_count is the number of buffers dequeued and decode_count the
\* number of decode calls that succeeded, since camera_start; so
\* decode_count <= frame_count; and after a failed decode the worker is on
\* its way to QBUF, not out of the loop.
CountersTrackOutcomes ==
    /\ frame_count = dq_total
    /\ decode_count = ok_decodes
    /\ decode_count <= frame_count
    /\ w_decode_ret = -1 => workerPc = "qbuf"
CountersTrackOutcomesWitness ==
    /\ workerPc = "select"
    /\ frame_count = 2
    /\ decode_count = 1
    /\ produced = 2

\* C11: with a callback registered, the frame callback has been entered
\* exactly once for each decode that returned 0 (none for a failed decode or
\* an empty buffer, none without a callback); it runs on the worker, between
\* the decode and the QBUF; its buffer argument is the publish slot
\* 1 - bgra_write_idx, which holds the frame just decoded in full; width,
\* height and stride are the context's width, height and width * 4; and no
\* step taken while the callback runs changes that buffer.
FrameCallbackContract ==
    /\ [](/\ cb_count = IF callback
                        THEN ok_decodes - (IF workerPc = "callback" THEN 1
                                           ELSE 0)
                        ELSE 0
          /\ (cb_arg # NoCall) <=> (workerPc = "in_cb")
          /\ workerPc = "in_cb" =>
                /\ cb_arg.buf = 1 - bgra_write_idx
                /\ bgra_buffer[cb_arg.buf] = <<w_task.fid, w_task.fid>>
                /\ w_decode_ret = 0
                /\ cb_arg.width = width /\ cb_arg.height = height
                /\ cb_arg.stride = width * 4)
    /\ [][workerPc = "in_cb" =>
             bgra_buffer'[cb_arg.buf] = bgra_buffer[cb_arg.buf]]_vars

FrameCallbackContractWitness ==
    /\ workerPc = "in_cb" /\ cb_count = 1 /\ frame_count = 2
    /\ decode_count = 1 /\ readerPc = "copying"

\* C12: once a decode call has returned, whatever step of it failed, every
\* task it dequeued from a port has been given back to a port and the input
\* port still has a task for the next call.
DecoderStaysUsable ==
    workerPc \notin {"fetch", "conv_lo", "conv_hi", "toggle"} =>
        /\ mpp_leaked = 0
        /\ InputTaskFree

\* C13: on every return path of a decode call each packet descriptor and
\* each frame descriptor initialised by the call has been de-initialised
\* exactly once: none is live outside a call, none is released twice, and
\* both are live while the call waits for or uses the decoder's output.
DescriptorsReleasedOnce ==
    /\ w_descs.pkt \in {0, 1} /\ w_descs.frm \in {0, 1}
    /\ IF workerPc \in {"fetch", "conv_lo", "conv_hi", "toggle"}
       THEN w_descs = DescsInFlight
       ELSE w_descs = NoDescs

DescriptorsReleasedOnceWitness ==
    /\ workerPc = "qbuf" /\ w_decode_ret = -1 /\ w_descs = NoDescs
    /\ mpp_pending # <<>> /\ frame_count = 2 /\ decode_count = 1

DriverGeometryPropagates ==
    initPc = "ready" =>
        /\ ictx.pkt_buf_size = width * height
        /\ bgra_buffer_size = width * height * 4

\* C16: a frame converted by the scalar loops (nv12_to_bgra_scalar for
\* 4:2:0, nv16_to_bgra for 4:2:2) has, for every pixel (i, j), at
\* dst[i*width*4 + j*4 ..] the bytes B, G, R, A with
\* R = clamp(Y + ((V-128)*359 >> 8)),
\* G = clamp(Y - (((U-128)*88 + (V-128)*183) >> 8)),
\* B = clamp(Y + ((U-128)*454 >> 8)), A = 255, where Y is luma (i, j) and
\* U, V are the bytes at columns (j/2)*2 and (j/2)*2 + 1 of chroma row i/2
\* (4:2:0) or i (4:2:2).
ScalarConversionFormula ==
    (/\ conv_pc = "done" /\ conv_row = ConvHeight
     /\ ~(conv_in.neon /\ conv_in.fmt \in {"NV12", "NV21"})) =>
        \A i \in 0 .. (ConvHeight - 1), j \in 0 .. (ConvWidth - 1) :
            LET Y == conv_in.y[i * ConvStride + j + 1]
                crow == IF conv_in.fmt \in {"NV12", "NV21"} THEN i \div 2
                        ELSE i
                U == conv_in.uv[crow * ConvStride + (j \div 2) * 2 + 1]
                V == conv_in.uv[crow * ConvStride + (j \div 2) * 2 + 2]
                R == Clamp(Y + (((V - 128) * 359) \div 256))
                G == Clamp(Y - ((((U - 128) * 88 + (V - 128) * 183)) \div 256))
                B == Clamp(Y + (((U - 128) * 454) \div 256))
                at == i * ConvWidth * 4 + j * 4
            IN  /\ conv_dst[at + 1] = B
                /\ conv_dst[at + 2] = G
                /\ conv_dst[at + 3] = R
                /\ conv_dst[at + 4] = 255

ScalarConversionFormulaWitness ==
    /\ conv_pc = "done" /\ conv_row = ConvHeight /\ conv_in.fmt = "NV16"
    /\ conv_in.y[1] = 255 /\ conv_in.uv[1] = 0 /\ conv_in.uv[2] = 255
    /\ conv_dst[3] = 255 /\ conv_dst[4] = 255

\* C17: in a 4:2:0 frame converted by the SIMD loop, every pixel of every
\* 8-pixel group has the bytes the scalar formula gives for it: its lane
\* uses the chroma pair at column (j/2)*2 of its own pixel j and the 16-bit
\* lane arithmetic gives the value of the scalar integer computation.
SimdMatchesScalar ==
    (/\ conv_pc = "done" /\ conv_row = ConvHeight
     /\ conv_in.neon /\ conv_in.fmt \in {"NV12", "NV21"}) =>
        \A i \in 0 .. (ConvHeight - 1), j \in 0 .. (8 * (ConvWidth \div 8) - 1) :
            \A c \in 1 .. 4 :
                conv_dst[i * ConvWidth * 4 + j * 4 + c]
                    = ScalarRowPixel(i \div 2, i, j)[c]

\* C18: in a frame converted by the CPU path each pixel is computed from
\* Cb and Cr in the order of its format: Cb at chroma column (j/2)*2 and Cr
\* at +1 for NV12 and NV16, Cr at (j/2)*2 and Cb at +1 for NV21 and NV61.
ChromaOrderHonoured ==
    (conv_pc = "done" /\ conv_row = ConvHeight /\ ~conv_in.neon) =>
        \A i \in 0 .. (ConvHeight - 1), j \in 0 .. (ConvWidth - 1) :
            LET crow == IF conv_in.fmt \in {"NV12", "NV21"} THEN i \div 2
                        ELSE i
                first == conv_in.uv[crow * ConvStride + (j \div 2) * 2 + 1]
                second == conv_in.uv[crow * ConvStride + (j \div 2) * 2 + 2]
                Cb == IF conv_in.fmt \in {"NV12", "NV16"} THEN first
                      ELSE second
                Cr == IF conv_in.fmt \in {"NV12", "NV16"} THEN second
                      ELSE first
            IN  \A c \in 1 .. 4 :
                    conv_dst[i * ConvWidth * 4 + j * 4 + c]
                        = ScalarPixel(conv_in.y[i * ConvStride + j + 1],
                                      Cb, Cr)[c]

\* C19: once yuv_to_bgra_rga has returned, whichever step failed, every
\* import handle it obtained has been released exactly once and no other;
\* and when it reported failure the CPU conversion has run over the whole
\* frame into the same buffer by the time the conversion is done.
RgaHandlesAndFallback ==
    /\ \A h \in {"src", "dst"} :
          Cardinality({n \in 1 .. Len(rga.released) : rga.released[n] = h})
              = Cardinality({n \in 1 .. Len(rga.acquired) :
                               rga.acquired[n] = h})
    /\ rga.ret # 0 => conv_pc \in {"cpu", "done"}
    /\ (conv_pc = "done" /\ rga.ret # 0) =>
          /\ conv_row = ConvHeight
          /\ \A k \in 1 .. (ConvWidth * ConvHeight * 4) :
                conv_dst[k] # Unwritten

RgaHandlesAndFallbackWitness ==
    /\ conv_pc = "done" /\ rga.ret = -1
    /\ rga.acquired = <<"src", "dst">> /\ rga.released = <<"src", "dst">>
    /\ conv_dst[ConvWidth * ConvHeight * 4] = 255

\* C20: gst_player_start called while the player is playing returns OK and
\* changes nothing: no state is requested of the pipeline, the pipeline's
\* state, the flags, the start time and the frame counter stay as they
\* were. gst_player_stop called on a player that is not playing returns OK
\* and requests no state of the pipeline.
StartStopNoOps ==
    [][/\ (GstPlayerStart /\ gst_ctx = "live" /\ gst_playing)
          => /\ gst_ret' = "OK"
             /\ gst_set_state' = <<>>
             /\ UNCHANGED <<gst_ctx, gst_pipeline, gst_video_sink,
                            gst_x11_window_id, gst_running, gst_playing,
                            gst_frame_count, gst_start_time>>
       /\ (GstPlayerStop /\ gst_ctx = "live" /\ ~gst_playing)
          => /\ gst_ret' = "OK"
             /\ gst_set_state' = <<>>
             /\ UNCHANGED <<gst_ctx, gst_pipeline, gst_video_sink,
                            gst_x11_window_id, gst_running, gst_playing,
                            gst_frame_count, gst_start_time>>]_vars

\* gst_player_start has returned OK on a playing player without a request
\* to the pipeline, at a time later than the start time it left in place
StartStopNoOpsWitness ==
    /\ gst_op = "start" /\ gst_ret = "OK" /\ gst_set_state = <<>>
    /\ gst_ctx = "live" /\ gst_playing /\ gst_pipeline = "PLAYING"
    /\ gst_start_time < gst_clock

\* C21: the pipeline is in the PLAYING state only on a player on which
\* gst_player_set_window has succeeded since it was created (the window id
\* it stored is then not 0).
PlayingOnlyAfterSetWindow ==
    gst_pipeline = "PLAYING" => gst_x11_window_id # 0

\* C22: while the detection tap's frame callback runs, its width and height
\* are the configured face_detect_width/height, or the capture width/height
\* where the configured value is not positive, and its stride is four times
\* that width; the sample arrived while the player was running, it is held
\* and its buffer is mapped; once the handler has returned no buffer is
\* mapped.
TapCallbackArguments ==
    /\ tap_pc = "in_cb"
       => /\ tap_cb.width = (IF gst_cfg.face_detect_width > 0
                             THEN gst_cfg.face_detect_width
                             ELSE gst_cfg.width)
          /\ tap_cb.height = (IF gst_cfg.face_detect_height > 0
                              THEN gst_cfg.face_detect_height
                              ELSE gst_cfg.height)
          /\ tap_cb.stride = tap_cb.width * 4
          /\ tap_cb.running
          /\ tap_kind = "ok"
          /\ tap_refs = 1 /\ tap_maps = 1
    /\ tap_pc = "idle" => tap_maps = 0

\* the callback runs on a player whose configured detection width is not
\* positive and whose detection height is configured
TapCallbackArgumentsWitness ==
    /\ tap_pc = "in_cb"
    /\ gst_cfg.face_detect_width <= 0 /\ gst_cfg.face_detect_height > 0
    /\ tap_cb.width = 4 /\ tap_cb.height = 1 /\ tap_cb.stride = 16

\* C23: when the app-sink handler gets no sample, a sample without a buffer
\* or a buffer that cannot be mapped, it returns OK without invoking the
\* frame callback and holds neither a sample nor a mapping afterwards; and
\* whenever the handler is not running, every sample it pulled has been
\* released.
UnreadableSampleReturnsOk ==
    /\ [][\A kind \in {"none", "nobuf", "nomap"} :
            OnNewSample(kind)
            => /\ tap_ret' = "OK"
               /\ tap_pc' = "idle"
               /\ tap_cb_count' = tap_cb_count
               /\ tap_cb' = NoTapCall
               /\ tap_refs' = 0 /\ tap_maps' = 0]_vars
    /\ [](tap_pc = "idle" => tap_refs = 0)

\* the handler of a playing player has returned OK for a sample whose
\* buffer could not be mapped, with a frame callback registered
UnreadableSampleReturnsOkWitness ==
    /\ gst_playing /\ gst_frame_callback
    /\ tap_frames > 0 /\ tap_kind = "nomap"
    /\ tap_pc = "idle" /\ tap_ret = "OK" /\ tap_cb_count = 0

\* C29: gst_player_get_stats on a playing player, some time after the start,
\* writes an fps equal to the number of frames the player processed since
\* that start, times 10^6, divided by the microseconds elapsed since then.
StatsReportFrameRate ==
    [][(GstPlayerGetStats /\ gst_ctx = "live" /\ gst_playing
                          /\ gst_clock > gst_start_time)
       => /\ gst_stats'.fps_set
          /\ gst_stats'.fps_num * (gst_clock - gst_start_time)
               = tap_frames * 1000000 * gst_stats'.fps_den]_vars

\* C24: the stored detection count is always between 0 and 10; when a set
\* call with a box array and count > 10 has returned, the store holds the
\* first 10 boxes of that call in order, and when a set call with
\* 0 < count <= 10 has returned, exactly the count boxes of that call.
StoreHoldsAtMostTen ==
    /\ face_box_count \in 0 .. 10
    /\ (set_pc = "idle" /\ set_arg.call = "set" /\ set_arg.boxes
          /\ set_arg.count > 10)
       => /\ face_box_count = 10
          /\ \A k \in 1 .. 10 : face_boxes[k] = [u |-> set_arg.u, k |-> k]
    /\ (set_pc = "idle" /\ set_arg.call = "set" /\ set_arg.boxes
          /\ set_arg.count > 0 /\ set_arg.count <= 10)
       => /\ face_box_count = set_arg.count
          /\ \A k \in 1 .. set_arg.count :
               face_boxes[k] = [u |-> set_arg.u, k |-> k]

\* a second update with 11 boxes has returned
StoreHoldsAtMostTenWitness ==
    /\ set_pc = "idle" /\ set_ret = "OK"
    /\ set_arg.call = "set" /\ set_arg.boxes /\ set_arg.count = 11
    /\ set_arg.u = 2
    /\ face_box_count = 10

\* C25: within one invocation of the draw callback, the count, the source
\* dimensions and the boxes it uses were all written by one single set or
\* clear call (or are all those of the freshly created player), whatever
\* the interleaving with the caller thread.
DrawSeesOneUpdate ==
    Cardinality(draw_used) <= 1

\* a draw has stroked two boxes of the second update while the caller
\* thread waits for the mutex
DrawSeesOneUpdateWitness ==
    /\ draw_pc = "loop" /\ Len(draw_rects) = 2
    /\ draw_used = {2}
    /\ face_box_mutex = "draw"

\* C26: when a set call with a non-empty box list has returned, the stored
\* source width is the call's source_width if that is positive and the
\* player's detection width otherwise, and the stored source height
\* likewise and independently.
SourceDimsFallBack ==
    (set_pc = "idle" /\ set_arg.call = "set" /\ set_arg.boxes
       /\ set_arg.count > 0)
    => /\ face_source_width = (IF set_arg.source_width > 0
                               THEN set_arg.source_width
                               ELSE IF gst_cfg.face_detect_width > 0
                               THEN gst_cfg.face_detect_width
                               ELSE gst_cfg.width)
       /\ face_source_height = (IF set_arg.source_height > 0
                                THEN set_arg.source_height
                                ELSE IF gst_cfg.face_detect_height > 0
                                THEN gst_cfg.face_detect_height
                                ELSE gst_cfg.height)

\* a set call that passed a source width and no source height has returned
SourceDimsFallBackWitness ==
    /\ set_pc = "idle" /\ set_ret = "OK"
    /\ set_arg.call = "set" /\ set_arg.boxes /\ set_arg.count > 0
    /\ set_arg.source_width = 2 /\ set_arg.source_height = 0
    /\ face_source_width = 2 /\ face_source_height = 1

DrawStrokesEveryBox ==
    (draw_pc = "unlock"
       /\ draw_dims.video_width > 0 /\ draw_dims.video_height > 0
       /\ draw_dims.source_width > 0 /\ draw_dims.source_height > 0)
    => /\ Len(draw_rects) = face_box_count
       /\ \A i \in 1 .. Len(draw_rects) :
            LET b == BoxOf(face_boxes[i].u, face_boxes[i].k)
                r == draw_rects[i].rect
                vw == draw_dims.video_width
                vh == draw_dims.video_height
                sw == draw_dims.source_width
                sh == draw_dims.source_height
            IN  /\ draw_rects[i].box = face_boxes[i]
                /\ r.x_num * 2 * sw
                     = r.x_den * (2 * b.center_x * vw - b.width * vw)
                /\ r.y_num * 2 * sh
                     = r.y_den * (2 * b.center_y * vh - b.height * vh)
                /\ r.w_num * sw = r.x_den * b.width * vw
                /\ r.h_num * sh = r.y_den * b.height * vh
                /\ r.label = (b.score > 0)

\* a draw at the larger display size has stroked two boxes, one with a
\* label and one without
DrawStrokesEveryBoxWitness ==
    /\ draw_pc = "unlock" /\ Len(draw_rects) = 2
    /\ draw_dims.video_width = 8 /\ draw_dims.video_height = 6
    /\ draw_dims.source_width = 2 /\ draw_dims.source_height = 1
    /\ draw_rects[1].rect.label # draw_rects[2].rect.label

\* C30: across every interleaving of gst_player_global_init and
\* gst_player_create calls, gst_init_check runs successfully at most once;
\* a call that begins once the flag is set returns OK without running it;
\* a failed attempt leaves the flag false.
FrameworkInitialisedOnce ==
    /\ [](gst_init_runs <= 1)
    /\ [][\A t \in 1 .. MaxThreads :
            /\ (\E via \in {"global_init", "create"} :
                   GlobalInitEnter(t, via) /\ g_gst_initialized)
               => gi_ret'[t] = "OK" /\ gi_pc'[t] = "idle"
                  /\ gst_init_runs' = gst_init_runs
            /\ GlobalInitCheck(t, FALSE)
               => g_gst_initialized' = g_gst_initialized]_vars

\* C31: the writer index of the publish double buffer is always 0 or 1; it
\* changes only in the step that ends a successful decode, to the other
\* buffer, once both halves of buffer[writer] hold the decoded frame, and
\* every successful decode changes it; a failed decode leaves the index
\* and the published buffer as they were.
WriterIndexToggles ==
    /\ [](bgra_write_idx \in {0, 1})
    /\ [][/\ (bgra_write_idx' # bgra_write_idx)
             => /\ workerPc = "toggle"
                /\ w_decode_ret' = 0
                /\ ok_decodes' = ok_decodes + 1
                /\ bgra_write_idx' = 1 - bgra_write_idx
                /\ bgra_buffer[bgra_write_idx] = <<w_task.fid, w_task.fid>>
          /\ WorkerToggle => (bgra_write_idx' # bgra_write_idx)
          /\ (workerPc \in {"decode", "fetch"} /\ DecodeFails)
             => /\ bgra_write_idx' = bgra_write_idx
                /\ bgra_buffer'[1 - bgra_write_idx]
                     = bgra_buffer[1 - bgra_write_idx]]_vars

\* a decode failed after an earlier one succeeded: the index stays toggled
WriterIndexTogglesWitness ==
    /\ workerPc = "qbuf" /\ w_decode_ret = -1
    /\ ok_decodes = 1 /\ bgra_write_idx = 1
    /\ bgra_buffer[0] = <<published, published>> /\ published # Garbage

\* C32: for one caller issuing camera_start and camera_stop in any order,
\* camera_start creates a worker only when none exists; once a camera_stop
\* that did the work has returned, no worker exists and the driver holds no
\* buffer, so no VIDIOC_QBUF of the next camera_start is refused; and every
\* camera_start that gets as far as creating the worker has queued exactly
\* the buffers 0 .. buffer_count - 1, turned streaming on, zeroed both
\* counters and created one worker.
RestartAfterStop ==
    /\ [](/\ (callerPc = "idle" /\ last_op = "stop" /\ ~last_noop)
             => /\ workerPc = "none" /\ ~running /\ ~thread_started
                /\ ~streaming /\ KernelOwned = {}
                /\ FirstRefused = buffer_count
                /\ buffer_count + 1 \in StartStreamingOutcomes
          /\ workerPc = "none" => (~running \/ callerPc = "stop_join"))
    /\ [][(\E cb \in BOOLEAN : CameraStart(cb)) /\ callerPc' = "start_wait"
             => /\ workerPc = "none" /\ workerPc' = "begin"
                /\ incoming' = [i \in 1 .. buffer_count |-> i - 1]
                /\ done' = <<>>
                /\ streaming' /\ running'
                /\ frame_count' = 0 /\ decode_count' = 0]_vars

\* the second camera_start after a run that captured frames and was stopped
RestartAfterStopWitness ==
    /\ callerPc = "start_wait" /\ workerPc = "begin"
    /\ produced > 0 /\ published # Garbage
    /\ Len(incoming) = buffer_count /\ done = <<>>
    /\ frame_count = 0 /\ decode_count = 0

\* C33: camera_init goes on past VIDIOC_REQBUFS only with at least 2
\* buffers; whatever count the driver grants, every index of the mapping
\* loop is an index of the 4-entry table, and a returned handle has
\* 2 <= buffer_count <= 4.
BufferCountInRange ==
    /\ initPc \in {"map", "ready"} => buffer_count >= 2
    /\ initPc = "ready" => buffer_count \in 2 .. V4L2_BUFFER_COUNT
    /\ (initPc = "map" /\ init_idx < buffer_count) => init_idx \in MapSlots

\* C34: camera_capture_frame returns INVALID_PARAM for a null handle or a
\* null destination whether or not the capture runs, otherwise NOT_RUNNING
\* when it does not run, otherwise INVALID_PARAM when the destination is
\* smaller than one BGRA frame; and in each of these cases it writes
\* neither the destination nor the width and height outputs.
CaptureFrameChecks ==
    [][\A a \in CaptureArgs :
         CameraCaptureFrame(a) =>
           /\ (~a.handle \/ ~a.dst) => cap_ret' = "INVALID_PARAM"
           /\ (a.handle /\ a.dst /\ ~running) => cap_ret' = "NOT_RUNNING"
           /\ (a.handle /\ a.dst /\ running /\ a.size < width * height * 4)
                => cap_ret' = "INVALID_PARAM"
           /\ cap_ret' # "OK" => cap_out' = NoOutput
           /\ cap_ret' \in {"INVALID_PARAM", "NOT_RUNNING", "OK"}]_vars

\* a call with a null destination while the capture runs, refused before
\* the size is looked at
CaptureFrameChecksWitness ==
    /\ running /\ published # Garbage
    /\ cap_args.handle /\ ~cap_args.dst /\ cap_args.outs
    /\ cap_args.size = bgra_buffer_size
    /\ cap_ret = "INVALID_PARAM" /\ cap_out = NoOutput

\* C35: every decode call advances the round-robin slot index by one
\* modulo MPP_BUFFER_COUNT, whatever its outcome; a call whose packet is
\* larger than the slot's packet buffer returns -1 having copied no byte
\* and submitted no task.
OversizedPacketRejected ==
    [][WorkerDecodeSubmit =>
         /\ current_buf_idx' = (current_buf_idx + 1) % MPP_BUFFER_COUNT
         /\ current_buf_idx' \in Slots
         /\ w_buf.bytesused > PktBufSize
              => /\ pkt_copied' = 0
                 /\ w_decode_ret' = -1
                 /\ UNCHANGED mppVars
                 /\ workerPc' = "qbuf"
         /\ w_buf.bytesused <= PktBufSize => pkt_copied' = w_buf.bytesused]_vars

\* the ninth decode call, on slot 0 again, was given an oversized packet
OversizedPacketRejectedWitness ==
    /\ workerPc = "qbuf" /\ w_buf.bytesused > PktBufSize
    /\ dq_total = MPP_BUFFER_COUNT + 1 /\ current_buf_idx = 1
    /\ w_decode_ret = -1 /\ pkt_copied = 0

\* C36: a gst_player_start whose state change to PLAYING fails returns
\* PIPELINE_FAILED with running and playing false, so gst_player_is_playing
\* is false; between API calls running equals playing; and
\* gst_player_is_playing becomes true only by a gst_player_start that
\* returns OK, stays true until gst_player_stop (called directly or by
\* gst_player_destroy), and is false after it.
PlayingFlagFollowsStartStop ==
    /\ [](gst_running = gst_playing)
    /\ [][/\ (GstPlayerStart /\ gst_ret' = "PIPELINE_FAILED")
             => /\ ~gst_running' /\ ~gst_playing'
                /\ ~gst_player_is_playing'
                /\ ~gst_player_is_playing
          /\ (GstPlayerStart /\ gst_ret' = "OK") => gst_player_is_playing'
          /\ (gst_player_is_playing' /\ ~gst_player_is_playing)
             => (GstPlayerStart /\ gst_ret' = "OK")
          /\ (~gst_player_is_playing' /\ gst_player_is_playing)
             => (GstPlayerStop \/ GstPlayerDestroy)
          /\ (GstPlayerStop \/ GstPlayerDestroy)
             => ~gst_player_is_playing']_vars

\* a start on a created player whose state change failed
PlayingFlagFollowsStartStopWitness ==
    /\ gst_ctx = "live" /\ gst_op = "start" /\ gst_ret = "PIPELINE_FAILED"
    /\ gst_pipeline = "NULL" /\ ~gst_player_is_playing
    /\ gst_start_time > 0

\* C37: gst_player_create returns a handle only for a config that is given,
\* names a device and asks for MJPEG or YUY2; and whenever it has returned
\* NULL it holds nothing of what it acquired: not the context, its mutex,
\* the pipeline string, the error or a pipeline object.
CreateFailureReleasesAll ==
    /\ (gst_op = "create" /\ gst_ret = "handle")
          => ConfigGiven(gst_cfg) /\ FormatBuilt(gst_cfg)
    /\ (gst_op = "create" /\ gst_ret = "NULL") => create_left = {}

\* C38: a player created with face_detect_fps = 0 has no app-sink, and its
\* frame callback is not invoked.
NoTapWithoutDetectionRate ==
    (gst_ctx = "live" /\ gst_cfg.face_detect_fps = 0)
        => ~gst_app_sink /\ tap_pc = "idle" /\ tap_cb_count = 0

\* C39: camera_is_running is true only while a worker exists and has not
\* left its loop, and a camera_start that returned OK without doing
\* anything found a worker that had not left its loop.
RunningMeansWorkerLoops ==
    /\ camera_is_running => workerPc \notin {"none", "exited"}
    /\ (callerPc = "idle" /\ last_op = "start" /\ last_noop)
          => workerPc \notin {"none", "exited"}

\* C40: a camera_stop that did the work on a second thread returns with the
\* worker joined, also when camera_start is still in progress; and once
\* camera_deinit has freed the context no worker is inside
\* capture_thread_func.
ConcurrentStopJoinsWorker ==
    /\ [](~live.ctx => workerPc \in {"none", "exited"})
    /\ [][((CameraStopOther /\ running /\ stopperPc' = "idle")
            \/ CameraStopOtherJoin)
             => workerPc' = "none"]_vars

====
